---- MODULE Spec2Model ----
(***************************************************************************)
(* Model of the turtle acquisition service: the relational store           *)
(* (app/services/database.py), the retry helper and the bulk acquisition   *)
(* pipeline (app/services/background_tasks.py), the provider session        *)
(* wrapper (app/utils/baostock_wrapper.py) and the on-demand endpoints      *)
(* (app/routers/stock.py).                                                  *)
(*                                                                         *)
(* A coroutine is split at its await points and a worker thread at its     *)
(* provider calls: one action is one such step.                            *)
(***************************************************************************)
EXTENDS Integers, Sequences, FiniteSets, TLC

\* ---------------------------------------------------------------- bounds
\* trading dates are 1..MaxDate
MaxDate == 2
\* the largest max_retries handed to retry_on_failure
MaxAttempts == 4

\* the operations on the provider that are run one after the other
MaxOps == 2
\* the instruments of a bulk operation
MaxCodes == 2

\* the longest closing-price series given to the detector with short windows
MaxRows == 5
\* the clock counts ticks, TicksPerHour of them in an hour
TicksPerHour == 2
\* the clock runs over the days 0..MaxDay
MaxDay == 1
\* detect_days of a detection run is 1..MaxDetectDays
MaxDetectDays == 3
\* the longest series given to the MACD detector
MaxMacdRows == 2
\* the entry signals given to a simulation are rows 1..MaxEntries
MaxEntries == 3
\* the messages a client sends on one chat session
MaxMessages == 5
\* the characters of an input of the classifier
MaxInput == 3
\* the calls made on one state machine
MaxCalls == 4
\* the tasks started in one task map
MaxTasks == 2

\* ------------------------------------------------------ program constants
MAX_RETRIES == 3
RETRY_DELAY == 2
\* now.replace(hour=20, minute=0, second=0, microsecond=0)
TRIGGER_HOUR == 20
\* timedelta(days=1), in hours
HoursPerDay == 24
\* df['SMA5'] = calculate_sma(df, 5), df['SMA10'] = calculate_sma(df, 10)
SMA_SHORT == 5
SMA_LONG == 10

\* ------------------------------------------------------------ value sets
None == "none"
\* the callers of the process: the scheduler's background task and an
\* on-demand API request
Procs == {"sched", "api"}
Codes == {"sh.600000", "sz.000001"}
\* the code field of a membership row that has none (empty or missing)
NoCode == ""
IndexTypes == {"hs300", "zz500"}
\* the codes whose bars the store calls of SpecStore write
StoreCodes == {"sh.600000"}
Dates == 1..MaxDate
Vals == {1, 2}

\* one daily bar as the provider returns it (record of a DataFrame row)
Bar(d, v) == [date |-> d, open |-> v, close |-> v]
\* the lists of bars handed to one upsert: one quote per date of a range of
\* dates (none when the range is empty), or one date twice with two quotes
BarBatches ==
    {[k \in 1..(b - a + 1) |-> Bar(a + k - 1, v)] : a \in Dates, b \in 0..MaxDate, v \in Vals}
    \cup {<<Bar(d, 1), Bar(d, 2)>> : d \in Dates}
\* one membership row as the provider returns it
Stock(c, n) == [code |-> c, name |-> n]
\* the member lists handed to one replace: one has a row without a code, one
\* names the same code twice
StockLists ==
    {<<>>, <<Stock("sh.600000", "a")>>,
     <<Stock("sh.600000", "a"), Stock("sz.000001", "a")>>,
     <<Stock(NoCode, "a"), Stock("sz.000001", "a")>>,
     <<Stock("sh.600000", "a"), Stock("sh.600000", "b")>>}

\* optional bound of a date range that is not given
NoDate == 0

VARIABLES
    \* committed content of table index_stocks
    index_stocks,
    \* committed content of table stock_daily_data
    stock_daily_data,
    \* the connection that holds SQLite's write lock, or None
    lock,
    \* per caller: where its store call stands: idle, exec, ok, err
    cpc,
    \* per caller: the store call it runs: kind, key, rows, next statement
    job,
    \* per caller: the tables as its open transaction sees them
    work,
    \* the committed tables when the open transaction took the write lock
    snapshot,
    \* the bar rows of the most recent committed upsert of each key
    latest,
    \* per index: whether a replace of it has committed, and the codes of the
    \* most recent one
    lastReplace,
    \* the caller whose transaction committed last
    lastCommit,
    \* whether the two callers' current store calls ran at the same time
    overlap,
    \* whether the last commit was a replace that dropped a stored member
    shrunk,
    \* the result of the last read made since the write lock last changed
    \* hands, or NoObs
    obs

storeVars == <<index_stocks, stock_daily_data, lock, cpc, job, work, snapshot,
               latest, lastReplace, lastCommit, overlap, shrunk, obs>>

VARIABLES
    \* retry_on_failure: its arguments max_retries and delay
    max_retries,
    delay,
    \* the loop variable, and where the call stands: call, sleep, returned,
    \* raised
    attempt,
    rpc,
    \* the exception kept for the re-raise, the value returned, the raised error
    last_exception,
    result,
    raised,
    \* how often func was invoked, and the waits slept so far
    calls,
    sleeps,
    \* the errors func raised, one per failed attempt, in order
    errors

retryVars == <<max_retries, delay, attempt, rpc, last_exception, result, raised,
               calls, sleeps, errors>>

VARIABLES
    \* the bulk run: idle, login, fetch, logout, flush, done, raised
    bpc,
    \* which call site runs: fetch_all_stocks_daily_data or refresh_daily_data
    run,
    \* the list get_all_stock_codes returned, the loop position in it and the
    \* retry attempt of the instrument being fetched
    codes,
    idx,
    try,
    \* the dict all_data: the bars fetched per code, and the flush position
    all_data,
    fpos,
    \* the provider session of module baostock: one per process
    loggedIn,
    \* the on-demand request: idle, open, queried
    opc,
    \* the run's calls of login and of logout
    logins,
    logouts,
    \* the codes the run has queried, and those it gave up on
    queried,
    skipped,
    \* whether every query of the run came after its one login and before
    \* its logout, and whether one came while the session was closed
    inside,
    closedQuery,
    \* the bars the store held when the run began
    bars0

batchVars == <<bpc, run, codes, idx, try, all_data, fpos, loggedIn, opc, logins,
               logouts, queried, skipped, inside, closedQuery, bars0>>

VARIABLES
    \* the operation that uses the provider, or None, and where it stands:
    \* idle, login, query, rows, returned, raised
    sop,
    spc,
    \* the instruments a bulk operation has still to query
    sleft,
    \* the calls of bs.login() and of bs.logout() of the operations so far
    slogins,
    slogouts

sessVars == <<sop, spc, sleft, slogins, slogouts>>

VARIABLES
    \* lifespan: startup, serving, stopping, stopped
    lpc,
    \* initial_task: new, created, members, backfill, returned, cancelled, raised
    ipc,
    \* daily_task: new, created, sleep, members, refresh, cooldown, returned,
    \* cancelled, raised
    dpc,
    \* per task: cancel() was called and CancelledError is not yet thrown
    must_cancel,
    \* the wall clock, in ticks
    clock,
    \* daily_refresh_task: its locals now, target_time and wait_seconds, in ticks
    now,
    target_time,
    wait_seconds,
    \* where daily_task stood when cancel() was called, or None
    cancelAt,
    \* the tasks whose unit of work in flight had CancelledError thrown into it
    aborted,
    \* whether daily_task began a fetch after cancel() was called
    startedAfter,
    \* how many scheduled runs raised, and whether the initial load did
    failures,
    ifailed

schedVars == <<lpc, ipc, dpc, must_cancel, clock, now, target_time, wait_seconds,
               cancelAt, aborted, startedAfter, failures, ifailed>>

VARIABLES
    \* the detector: column close of the frame, the two windows, column
    \* Crossover once it is computed, and whether it is (idle, done)
    close,
    short_window,
    long_window,
    crossover,
    gpc

smaVars == <<close, short_window, long_window, crossover, gpc>>

VARIABLES
    \* detect_golden_cross_from_db and detect_macd_golden_cross_from_db: which
    \* of the two runs, its arguments stock_list and detect_days, the closing
    \* prices the store holds for each code, the number of list entries the
    \* loop has been through, the rows of the returned frame, and where the
    \* run stands (idle, loop, returned, raised)
    variant,
    stock_list,
    frame_of,
    detect_days,
    di,
    golden_cross_df,
    xpc

detVars == <<variant, stock_list, frame_of, detect_days, di, golden_cross_df, xpc>>

VARIABLES
    \* one request to the indicator and backtest code: the request, the rows
    \* the provider or the store has for its code (or that the provider
    \* raises), where the handler stands (called, fetched, returned, raised),
    \* the provider and store operations it has performed, its response, and
    \* the list content of do_search
    request,
    feed,
    hpc,
    io,
    response,
    content

btVars == <<request, feed, hpc, io, response, content>>

VARIABLES
    \* fetch_and_save_stock_data on one instrument: what
    \* fetch_stock_daily_data returned to it, the count it returned, the
    \* exception that left it, and where it stands (idle, fetch, fetched,
    \* returned)
    df,
    count,
    escaped,
    fspc

singleVars == <<df, count, escaped, fspc>>

VARIABLES
    \* one call of get_stock_daily_data_from_db: its arguments, the list it
    \* returned, and where it stands (idle, called, returned)
    query,
    answer,
    qpc

queryVars == <<query, answer, qpc>>

VARIABLES
    \* one WebSocket session of the chat agent: the state machine (state,
    \* api_key, device_id), the histories chat_service keeps by device id,
    \* the inputs handed to agent_service.process, the last response sent,
    \* the type of the last message received and how many were, and the
    \* steps of the handshake that succeeded
    state,
    api_key,
    device_id,
    device_histories,
    agent_inputs,
    sent,
    last_message,
    received,
    handshake

chatVars == <<state, api_key, device_id, device_histories, agent_inputs, sent,
              last_message, received, handshake>>

VARIABLES
    \* one call of AgentService.process: its arguments, the intent the
    \* classifier gave, whether the body of the workflow succeeds when it
    \* runs, the calls of execute that bound their arguments, the result
    \* returned, the exception that left process, and the position in process
    agent_request,
    intent_result,
    workflow_ok,
    invoked,
    agent_result,
    agent_raised,
    apc

agentVars == <<agent_request, intent_result, workflow_ok, invoked, agent_result,
               agent_raised, apc>>

VARIABLES
    \* one call of the rule-based classifier: the input as its characters,
    \* the IntentResult, and the position
    user_input,
    classified,
    kpc

intentVars == <<user_input, classified, kpc>>

VARIABLES
    \* one pass of membership refresh and bar fetch: who runs it, where it
    \* stands, where the fetch-and-save of each index stands, the failed
    \* attempts of its fetch, the list it fetched, the dict
    \* fetch_all_index_stocks returned, the codes the bar fetch read, and
    \* the member rows the store held when the pass began
    caller,
    wpc,
    task,
    tries,
    stocks_of,
    counts,
    codes_read,
    members0

refreshVars == <<caller, wpc, task, tries, stocks_of, counts, codes_read, members0>>

VARIABLES
    \* the state machine called on its own: the calls made, and what the last
    \* one returned
    called,
    returned

machineVars == <<called, returned>>

VARIABLES
    \* the module whose task map this is
    service,
    \* the task map: task id -> {"status", "result"}
    TASKS,
    \* the prompt each task_wrapper holds
    prompt_of,
    \* the ids start_task has returned
    issued,
    \* the id last looked up, and what get_task_result returned
    asked,
    found

taskVars == <<service, TASKS, prompt_of, issued, asked, found>>

\* the state of the classifier, the state machine and the task map
tailVars == <<intentVars, refreshVars, machineVars, taskVars>>

\* the state of the search and agent services
lateVars == <<detVars, btVars, singleVars, queryVars, chatVars, agentVars, tailVars>>

\* the state of the parts added to the store, the retry helper and the bulk run
restVars == <<sessVars, schedVars, smaVars, lateVars>>

\* the state of the acquisition service and of the detector
earlyVars == <<storeVars, retryVars, batchVars, sessVars, schedVars, smaVars>>

vars == <<storeVars, retryVars, batchVars, restVars>>

\* what a step of the store, of retry_on_failure, of the bulk run leaves alone
notStore == <<retryVars, batchVars, restVars>>
notRetry == <<storeVars, batchVars, restVars>>
notBatch == <<retryVars, restVars>>
\* what an operation on the provider leaves alone
notSess == <<storeVars, retryVars, batchVars, schedVars, smaVars, lateVars>>
\* what a step of lifespan and of its two tasks leaves alone
notSched == <<storeVars, retryVars, batchVars, sessVars, smaVars, lateVars>>
\* what the detector leaves alone
notSma == <<storeVars, retryVars, batchVars, sessVars, schedVars, lateVars>>
\* what a detection run leaves alone
notDet == <<earlyVars, btVars, singleVars, queryVars, chatVars, agentVars, tailVars>>
\* what a request to the indicator and backtest code leaves alone
notBt == <<earlyVars, detVars, singleVars, queryVars, chatVars, agentVars, tailVars>>
\* what fetch_and_save_stock_data leaves alone, the retry loop aside
notSingle == <<storeVars, batchVars, sessVars, schedVars, smaVars, detVars, btVars,
               queryVars, chatVars, agentVars, tailVars>>
\* what a query of the bars leaves alone
notQuery == <<earlyVars, detVars, btVars, singleVars, chatVars, agentVars, tailVars>>
\* what a message on the chat session leaves alone
notChat == <<earlyVars, detVars, btVars, singleVars, queryVars, agentVars, tailVars>>
\* what a call of AgentService.process leaves alone
notAgent == <<earlyVars, detVars, btVars, singleVars, queryVars, chatVars, tailVars>>
\* the state before the classifier, the state machine and the task map
headVars == <<earlyVars, detVars, btVars, singleVars, queryVars, chatVars, agentVars>>
\* what a call of the rule-based classifier leaves alone
notIntent == <<headVars, refreshVars, machineVars, taskVars>>
\* the store, the member rows aside
storeRest == <<stock_daily_data, lock, cpc, job, work, snapshot, latest, lastReplace,
               lastCommit, overlap, shrunk, obs>>
\* what a pass of membership refresh and bar fetch leaves alone, the member
\* rows aside
notRefresh == <<storeRest, retryVars, batchVars, sessVars, schedVars, smaVars, detVars,
                btVars, singleVars, queryVars, chatVars, agentVars, intentVars,
                machineVars, taskVars>>
\* the chat session, the fields of its state machine aside
chatRest == <<device_histories, agent_inputs, sent, last_message, received, handshake>>
\* what a call of the state machine leaves alone
notMachine == <<earlyVars, detVars, btVars, singleVars, queryVars, agentVars, chatRest,
                intentVars, refreshVars, taskVars>>
\* what the task map's operations leave alone
notTasks == <<headVars, intentVars, refreshVars, machineVars>>

\* ------------------------------------------------------------ the store

Committed == [idx |-> index_stocks, bars |-> stock_daily_data]

NoTables == [idx |-> {}, bars |-> {}]

NoObs == [kind |-> None, key |-> None, bars |-> <<>>, members |-> {}]

NoJob == [kind |-> None, key |-> None, rows |-> <<>>, i |-> 1]

\* the row written for one record of save_stock_daily_data
BarRow(code, rec) ==
    [code |-> code, date |-> rec.date, open |-> rec.open, close |-> rec.close]

\* the statement on a table that lacks UNIQUE(code, date): a plain insert
InsertBarNoUnique(tbl, row) == tbl \cup {row}

\* the statement as an update of the stored row's close alone
UpdateCloseOnly(tbl, row) ==
    IF \E r \in tbl : r.code = row.code /\ r.date = row.date
    THEN {IF r.code = row.code /\ r.date = row.date
          THEN [r EXCEPT !.close = row.close] ELSE r : r \in tbl}
    ELSE tbl \cup {row}

\* INSERT OR REPLACE INTO stock_daily_data under UNIQUE(code, date)
InsertOrReplaceBar(tbl, row) ==
    {r \in tbl : ~(r.code = row.code /\ r.date = row.date)} \cup {row}

\* the row written for one stock of save_index_stocks
IndexRow(tag, stock) ==
    [index_type |-> tag, code |-> stock.code, name |-> stock.name]

\* the replace without its DELETE: a merge into the stored members
DeleteNothing(tbl, tag) == tbl

\* a DELETE without its WHERE
DeleteEveryIndex(tbl, tag) == {}

\* DELETE FROM index_stocks WHERE index_type = ?
DeleteIndex(tbl, tag) == {r \in tbl : r.index_type # tag}

\* INSERT OR REPLACE INTO index_stocks under UNIQUE(index_type, code)
InsertOrReplaceIndex(tbl, row) ==
    {r \in tbl : ~(r.index_type = row.index_type /\ r.code = row.code)} \cup {row}

\* the tables a connection sees: its own transaction once it holds the lock
View(p) == IF lock = p THEN work[p] ELSE Committed

\* the effect of statement j.i of call j on the tables `view`: an upsert of
\* one bar, the DELETE of an index, or the insert of one stock that has a code
ExecStatement(j, view) ==
    IF j.kind = "bars"
    THEN [view EXCEPT !.bars = InsertOrReplaceBar(@, BarRow(j.key, j.rows[j.i]))]
    ELSE IF j.i = 0
    THEN [view EXCEPT !.idx = DeleteIndex(@, j.key)]
    ELSE IF j.rows[j.i].code # NoCode
    THEN [view EXCEPT !.idx = InsertOrReplaceIndex(@, IndexRow(j.key, j.rows[j.i]))]
    ELSE view

\* a connection in autocommit mode: every statement is published at once
AutoCommit(committed, view) == view

\* a close that commits what the transaction has done so far
CommitOnClose(committed, view) == view

\* what other connections see after a statement inside an open transaction:
\* nothing of it, the commit comes after the loop
AfterExecute(committed, view) == committed

\* what is left when an exception closes the connection before the commit
AfterClose(committed, view) == committed

\* what db.commit() publishes
AfterCommit(committed, view) == view

Ready(p) == cpc[p] \in {"idle", "ok", "err"}

Other(p) == CHOOSE q \in Procs : q # p

\* the last record of each date in a batch, as rows of `code`
LatestOf(code, rows) ==
    {BarRow(code, rows[k]) : k \in {n \in 1..Len(rows) :
        \A m \in (n + 1)..Len(rows) : rows[m].date # rows[n].date}}

\* the codes of a member list
CodesOf(stocks) == {stocks[k].code : k \in 1..Len(stocks)} \ {NoCode}

\* a store call starts: the connection is opened
Begin(p, j) ==
    /\ Ready(p)
    /\ job' = [job EXCEPT ![p] = j]
    /\ cpc' = [cpc EXCEPT ![p] = "exec"]
    /\ overlap' = (cpc[Other(p)] = "exec")
    /\ UNCHANGED <<index_stocks, stock_daily_data, lock, work, snapshot, latest,
                   lastReplace, lastCommit, shrunk, obs>>

\* save_stock_daily_data(code, data): one INSERT OR REPLACE per record
save_stock_daily_data(p, code, data) ==
    Begin(p, [kind |-> "bars", key |-> code, rows |-> data, i |-> 1])

\* save_index_stocks(index_type, stocks, fields): statement 0 is the DELETE,
\* then one INSERT OR REPLACE per stock
save_index_stocks(p, tag, stocks) ==
    Begin(p, [kind |-> "index", key |-> tag, rows |-> stocks, i |-> 0])

\* a caller other than the bulk run upserts bars
Upsert(p, code, data) == save_stock_daily_data(p, code, data) /\ UNCHANGED notStore

\* a caller replaces the members of an index
Replace(p, tag, stocks) == save_index_stocks(p, tag, stocks) /\ UNCHANGED notStore

\* one db.execute of the call: it takes the write lock (waiting while another
\* connection holds it) and changes the transaction's view
Execute(p) ==
    /\ cpc[p] = "exec"
    /\ job[p].i <= Len(job[p].rows)
    /\ lock \in {None, p}
    /\ LET view == ExecStatement(job[p], View(p))
           seen == AfterExecute(Committed, view)
       IN  /\ work' = [work EXCEPT ![p] = view]
           /\ index_stocks' = seen.idx
           /\ stock_daily_data' = seen.bars
    /\ snapshot' = IF lock = None THEN Committed ELSE snapshot
    /\ lock' = p
    /\ job' = [job EXCEPT ![p].i = @ + 1]
    /\ obs' = IF lock = None THEN NoObs ELSE obs
    /\ UNCHANGED <<cpc, latest, lastReplace, lastCommit, overlap, shrunk>>
    /\ UNCHANGED notStore

\* a statement or the commit raises (lock timeout, constraint, I/O): the
\* async-with block closes the connection without commit
Fail(p) ==
    /\ cpc[p] = "exec"
    /\ LET seen == AfterClose(Committed, View(p))
       IN  /\ index_stocks' = seen.idx
           /\ stock_daily_data' = seen.bars
    /\ lock' = IF lock = p THEN None ELSE lock
    /\ snapshot' = IF lock = p THEN NoTables ELSE snapshot
    /\ work' = [work EXCEPT ![p] = NoTables]
    /\ cpc' = [cpc EXCEPT ![p] = "err"]
    /\ obs' = IF lock = p THEN NoObs ELSE obs
    /\ UNCHANGED <<job, latest, lastReplace, lastCommit, overlap, shrunk>>
    /\ UNCHANGED notStore

\* db.commit() after the last statement
Commit(p) ==
    /\ cpc[p] = "exec"
    /\ job[p].i > Len(job[p].rows)
    /\ LET seen == AfterCommit(Committed, View(p))
       IN  /\ index_stocks' = seen.idx
           /\ stock_daily_data' = seen.bars
    /\ lock' = IF lock = p THEN None ELSE lock
    /\ snapshot' = IF lock = p THEN NoTables ELSE snapshot
    /\ work' = [work EXCEPT ![p] = NoTables]
    /\ cpc' = [cpc EXCEPT ![p] = "ok"]
    /\ latest' = IF job[p].kind = "bars"
                 THEN LET new == LatestOf(job[p].key, job[p].rows)
                      IN  {r \in latest : \A n \in new :
                              ~(n.code = r.code /\ n.date = r.date)} \cup new
                 ELSE latest
    /\ lastReplace' = IF job[p].kind = "index"
                      THEN [lastReplace EXCEPT ![job[p].key] =
                                [done |-> TRUE, codes |-> CodesOf(job[p].rows)]]
                      ELSE lastReplace
    /\ lastCommit' = p
    /\ shrunk' = /\ job[p].kind = "index"
                 /\ \E r \in index_stocks :
                       r.index_type = job[p].key /\ r.code \notin CodesOf(job[p].rows)
    /\ obs' = IF lock = p THEN NoObs ELSE obs
    /\ UNCHANGED <<job, overlap>>
    /\ UNCHANGED notStore

\* the rows of a set in ascending order of date (ORDER BY date ASC)
RECURSIVE OrderByDate(_)
OrderByDate(rows) ==
    IF rows = {} THEN <<>>
    ELSE LET first == CHOOSE r \in rows : \A q \in rows : r.date <= q.date
         IN  <<first>> \o OrderByDate(rows \ {first})

\* a query that takes the end of the range only when the start is missing
DropsEndDate(tbl, code, start_date, end_date) ==
    IF start_date # NoDate
    THEN OrderByDate({r \in tbl : r.code = code /\ r.date >= start_date})
    ELSE IF end_date # NoDate
    THEN OrderByDate({r \in tbl : r.code = code /\ r.date <= end_date})
    ELSE OrderByDate({r \in tbl : r.code = code})

\* get_stock_daily_data_from_db(code, start_date, end_date): one SELECT, of
\* four, by the bounds that are given
get_stock_daily_data_from_db(tbl, code, start_date, end_date) ==
    IF start_date # NoDate /\ end_date # NoDate
    THEN OrderByDate({r \in tbl : r.code = code /\ r.date >= start_date /\ r.date <= end_date})
    ELSE IF start_date # NoDate
    THEN OrderByDate({r \in tbl : r.code = code /\ r.date >= start_date})
    ELSE IF end_date # NoDate
    THEN OrderByDate({r \in tbl : r.code = code /\ r.date <= end_date})
    ELSE OrderByDate({r \in tbl : r.code = code})

\* get_index_stocks(index_type): SELECT ... WHERE index_type = ?
get_index_stocks(tbl, index_type) ==
    {[code |-> r.code, name |-> r.name] : r \in {q \in tbl : q.index_type = index_type}}

\* the tables as they were when the transaction now open began
Before == IF lock = None THEN Committed ELSE snapshot

\* a reader's query of the bars of one code, on its own connection
ReadBars(code) ==
    /\ obs' = [kind |-> "bars", key |-> code,
               bars |-> get_stock_daily_data_from_db(stock_daily_data, code, NoDate, NoDate),
               members |-> {}]
    /\ UNCHANGED <<index_stocks, stock_daily_data, lock, cpc, job, work, snapshot,
                   latest, lastReplace, lastCommit, overlap, shrunk>>
    /\ UNCHANGED notStore

\* a reader's query of the members of one index, on its own connection
ReadIndex(tag) ==
    /\ obs' = [kind |-> "index", key |-> tag, bars |-> <<>>,
               members |-> get_index_stocks(index_stocks, tag)]
    /\ UNCHANGED <<index_stocks, stock_daily_data, lock, cpc, job, work, snapshot,
                   latest, lastReplace, lastCommit, overlap, shrunk>>
    /\ UNCHANGED notStore

\* ------------------------------------------------------ retry_on_failure

Errors == {"e1", "e2"}
Values == {"v1", "v2"}
Delays == {1, RETRY_DELAY}

\* for attempt in range(max_retries)
InRange(a, n) == a < n

\* the test that lets the last attempts go unmade
GivesUpEarly(a, n) == a < n - 2

\* if attempt < max_retries - 1: another attempt follows the sleep
MoreAttempts(a, n) == a < n - 1

\* a wait that doubles with every attempt
ExponentialWait(d, a) == d * (2 ^ a)

\* wait_time = delay * (attempt + 1)
wait_time(d, a) == d * (a + 1)

\* an executor that keeps the error of the first attempt
KeepFirst(old, e) == IF old = None THEN e ELSE old

\* except Exception as e: last_exception = e
Caught(old, e) == e

\* an executor that goes on to the next attempt after func has returned
CallsAgain(v) ==
    /\ rpc = "call"
    /\ InRange(attempt, max_retries)
    /\ calls' = calls + 1
    /\ result' = v
    /\ rpc' = IF MoreAttempts(attempt, max_retries) THEN "sleep" ELSE "returned"
    /\ UNCHANGED <<max_retries, delay, attempt, last_exception, raised, sleeps, errors>>
    /\ UNCHANGED notRetry

\* func returns: retry_on_failure returns its value
Succeed(v) ==
    /\ rpc = "call"
    /\ InRange(attempt, max_retries)
    /\ calls' = calls + 1
    /\ result' = v
    /\ rpc' = "returned"
    /\ UNCHANGED <<max_retries, delay, attempt, last_exception, raised, sleeps, errors>>
    /\ UNCHANGED notRetry

\* func raises e: sleep and go on, or re-raise on the last attempt
FailAttempt(e) ==
    /\ rpc = "call"
    /\ InRange(attempt, max_retries)
    /\ calls' = calls + 1
    /\ errors' = Append(errors, e)
    /\ last_exception' = Caught(last_exception, e)
    /\ IF MoreAttempts(attempt, max_retries)
       THEN /\ sleeps' = Append(sleeps, wait_time(delay, attempt))
            /\ rpc' = "sleep"
            /\ UNCHANGED raised
       ELSE /\ raised' = last_exception'
            /\ rpc' = "raised"
            /\ UNCHANGED sleeps
    /\ UNCHANGED <<max_retries, delay, attempt, result>>
    /\ UNCHANGED notRetry

\* time.sleep returns: the next iteration
Wake ==
    /\ rpc = "sleep"
    /\ attempt' = attempt + 1
    /\ rpc' = "call"
    /\ UNCHANGED <<max_retries, delay, last_exception, result, raised, calls, sleeps,
                   errors>>
    /\ UNCHANGED notRetry

\* the loop ends without a return: raise last_exception, a TypeError when
\* it is still None
LoopEnds ==
    /\ rpc = "call"
    /\ ~InRange(attempt, max_retries)
    /\ raised' = IF last_exception = None THEN "TypeError" ELSE last_exception
    /\ rpc' = "raised"
    /\ UNCHANGED <<max_retries, delay, attempt, last_exception, result, calls, sleeps,
                   errors>>
    /\ UNCHANGED notRetry

RetryNext ==
    \/ \E v \in Values : Succeed(v)
    \/ \E e \in Errors : FailAttempt(e)
    \/ Wake
    \/ LoopEnds

\* ------------------------------------------------------- the bulk run

\* SELECT DISTINCT code FROM index_stocks
get_all_stock_codes(tbl) == {r.code : r \in tbl}

\* the lists that hold each element of S once
Orderings(S) ==
    {s \in [1..Cardinality(S) -> S] : \A i, j \in 1..Cardinality(S) : s[i] = s[j] => i = j}

\* what the provider returns for one instrument
FetchResults == BarBatches

\* a loop that logs in again for every instrument
SessionPerInstrument(i, n) == IF i < n THEN "login" ELSE "logout"

\* a loop that saves what it has as soon as one instrument is fetched
SaveAsFetched(i, n) == "logout"

\* after an instrument is done the for loop goes on inside the with block,
\* which ends after the last instrument
AfterInstrument(i, n) == IF i < n THEN "fetch" ELSE "logout"

\* a failure that ends the loop
AbortBatch(i, n) == "logout"

\* except Exception: ... continue, after the retries are exhausted
AfterExhausted(i, n) == IF i < n THEN "fetch" ELSE "logout"

\* for code, data in all_data.items(): the codes in insertion order
FlushOrder == SelectSeq(codes, LAMBDA c : c \in DOMAIN all_data)

storeGhosts == <<latest, lastReplace, lastCommit, overlap, shrunk, obs>>

\* fetch_all_stocks_daily_data / refresh_daily_data: the codes are read; with
\* none the run returns at once
Start(kind) ==
    /\ bpc = "idle"
    /\ run' = kind
    /\ \E list \in Orderings(get_all_stock_codes(index_stocks)) :
          /\ codes' = list
          /\ bpc' = IF list = <<>> THEN "done" ELSE "login"
    /\ UNCHANGED <<idx, try, all_data, fpos, loggedIn, opc, logins, logouts,
                   queried, skipped, inside, closedQuery, bars0>>
    /\ UNCHANGED notBatch
    /\ UNCHANGED storeVars

\* with BaoStockWrapper() as bs_wrapper: __enter__ calls bs.login()
Login ==
    /\ bpc = "login"
    /\ loggedIn' = TRUE
    /\ logins' = logins + 1
    /\ bpc' = "fetch"
    /\ UNCHANGED <<run, codes, idx, try, all_data, fpos, opc, logouts, queried,
                   skipped, inside, closedQuery, bars0>>
    /\ UNCHANGED notBatch
    /\ UNCHANGED storeVars

\* what one query of the run records
Queried ==
    /\ queried' = queried \cup {codes[idx]}
    /\ inside' = (inside /\ logins = 1 /\ logouts = 0)
    /\ closedQuery' = (closedQuery \/ ~loggedIn)

\* bs_wrapper.get_stock_data returns a frame: it is kept unless it is empty
QueryOk(rows) ==
    /\ bpc = "fetch"
    /\ loggedIn
    /\ Queried
    /\ all_data' = IF rows = <<>> THEN all_data
                   ELSE [c \in DOMAIN all_data \cup {codes[idx]} |->
                            IF c = codes[idx] THEN rows ELSE all_data[c]]
    /\ bpc' = AfterInstrument(idx, Len(codes))
    /\ idx' = idx + 1
    /\ try' = 0
    /\ UNCHANGED <<run, codes, fpos, loggedIn, opc, logins, logouts, skipped, bars0>>
    /\ UNCHANGED notBatch
    /\ UNCHANGED storeVars

\* bs_wrapper.get_stock_data raises (an error code of the provider, always
\* so without a session): retry_on_failure tries again or gives up, and the
\* loop continues with the next instrument
QueryError ==
    /\ bpc = "fetch"
    /\ Queried
    /\ IF MoreAttempts(try, MAX_RETRIES)
       THEN /\ try' = try + 1
            /\ UNCHANGED <<bpc, idx, skipped>>
       ELSE /\ skipped' = skipped \cup {codes[idx]}
            /\ bpc' = AfterExhausted(idx, Len(codes))
            /\ idx' = idx + 1
            /\ try' = 0
    /\ UNCHANGED <<run, codes, all_data, fpos, loggedIn, opc, logins, logouts, bars0>>
    /\ UNCHANGED notBatch
    /\ UNCHANGED storeVars

\* the with block ends: __exit__ calls bs.logout()
Logout ==
    /\ bpc = "logout"
    /\ loggedIn' = FALSE
    /\ logouts' = logouts + 1
    /\ bpc' = "flush"
    /\ UNCHANGED <<run, codes, idx, try, all_data, fpos, opc, logins, queried,
                   skipped, inside, closedQuery, bars0>>
    /\ UNCHANGED notBatch
    /\ UNCHANGED storeVars

\* await save_stock_daily_data(code, data) for the next code of all_data
FlushOne ==
    /\ bpc = "flush"
    /\ fpos <= Len(FlushOrder)
    /\ save_stock_daily_data("sched", FlushOrder[fpos], all_data[FlushOrder[fpos]])
    /\ bpc' = "saving"
    /\ UNCHANGED <<run, codes, idx, try, all_data, fpos, loggedIn, opc, logins,
                   logouts, queried, skipped, inside, closedQuery, bars0>>
    /\ UNCHANGED notBatch

\* the save returned: the next code
Saved ==
    /\ bpc = "saving"
    /\ cpc["sched"] = "ok"
    /\ fpos' = fpos + 1
    /\ bpc' = "flush"
    /\ UNCHANGED <<run, codes, idx, try, all_data, loggedIn, opc, logins, logouts,
                   queried, skipped, inside, closedQuery, bars0>>
    /\ UNCHANGED notBatch
    /\ UNCHANGED storeVars

\* the save raised: the run logs the error and raises it
SaveRaised ==
    /\ bpc = "saving"
    /\ cpc["sched"] = "err"
    /\ bpc' = "raised"
    /\ UNCHANGED <<run, codes, idx, try, all_data, fpos, loggedIn, opc, logins,
                   logouts, queried, skipped, inside, closedQuery, bars0>>
    /\ UNCHANGED notBatch
    /\ UNCHANGED storeVars

\* every code of all_data is saved: the run returns
Finish ==
    /\ bpc = "flush"
    /\ fpos > Len(FlushOrder)
    /\ bpc' = "done"
    /\ UNCHANGED <<run, codes, idx, try, all_data, fpos, loggedIn, opc, logins,
                   logouts, queried, skipped, inside, closedQuery, bars0>>
    /\ UNCHANGED notBatch
    /\ UNCHANGED storeVars

\* GET /api/data, get_stock_data: with BaoStockWrapper() logs in
OnDemandLogin ==
    /\ opc = "idle"
    /\ loggedIn' = TRUE
    /\ opc' = "open"
    /\ UNCHANGED <<bpc, run, codes, idx, try, all_data, fpos, logins, logouts,
                   queried, skipped, inside, closedQuery, bars0>>
    /\ UNCHANGED notBatch
    /\ UNCHANGED storeVars

\* its one query, which returns or raises
OnDemandQuery ==
    /\ opc = "open"
    /\ opc' = "queried"
    /\ UNCHANGED <<bpc, run, codes, idx, try, all_data, fpos, loggedIn, logins,
                   logouts, queried, skipped, inside, closedQuery, bars0>>
    /\ UNCHANGED notBatch
    /\ UNCHANGED storeVars

\* the with block ends, on either path: bs.logout()
OnDemandLogout ==
    /\ opc = "queried"
    /\ loggedIn' = FALSE
    /\ opc' = "idle"
    /\ UNCHANGED <<bpc, run, codes, idx, try, all_data, fpos, logins, logouts,
                   queried, skipped, inside, closedQuery, bars0>>
    /\ UNCHANGED notBatch
    /\ UNCHANGED storeVars

\* ------------------------------------------- operations on the provider

\* the operations that log in inside `with BaoStockWrapper()`
Scoped == {"fetch_hs300", "fetch_zz500", "fetch_data_for_all_codes",
           "fetch_refresh_data_for_all_codes", "get_stock_data", "sma_backtest"}
\* the operations that call bs.login() and bs.logout() themselves
Bare == {"get_hs300_stocks", "get_zz500_stocks", "search_stock_data"}
\* the two that query one instrument after the other and go on when one fails
Bulk == {"fetch_data_for_all_codes", "fetch_refresh_data_for_all_codes"}

\* an exception that leaves the operation: __exit__ logs out for the scoped
\* ones; the others have no finally and leave the session as it is
LogoutsOnRaise(op) == IF op \in Scoped THEN 1 ELSE 0

\* an error code of the query: the scoped operations raise inside the with
\* block, the others log out and raise
LogoutsOnErrorCode(op) == 1

\* the rows are read: the with block ends, or bs.logout() is called
LogoutsOnReturn(op) == 1

\* an operation is called
OpBegin(op, n) ==
    /\ spc \in {"idle", "returned", "raised"}
    /\ slogins < MaxOps
    /\ sop' = op
    /\ sleft' = IF op \in Bulk THEN n ELSE 1
    /\ spc' = "login"
    /\ UNCHANGED <<slogins, slogouts>>
    /\ UNCHANGED notSess

\* bs.login()
OpLogin ==
    /\ spc = "login"
    /\ slogins' = slogins + 1
    /\ spc' = "query"
    /\ UNCHANGED <<sop, sleft, slogouts>>
    /\ UNCHANGED notSess

\* an exception leaves the operation
OpRaises ==
    /\ slogouts' = slogouts + LogoutsOnRaise(sop)
    /\ spc' = "raised"
    /\ UNCHANGED <<sop, sleft, slogins>>

\* the query returns a result set without error
OpQueryOk ==
    /\ spc = "query"
    /\ spc' = "rows"
    /\ UNCHANGED <<sop, sleft, slogins, slogouts>>
    /\ UNCHANGED notSess

\* a bulk operation is done with one instrument: the next one, or the end
\* of the with block after the last
BulkGoesOn ==
    IF sleft > 1
    THEN /\ sleft' = sleft - 1
         /\ spc' = "query"
         /\ UNCHANGED <<sop, slogins, slogouts>>
    ELSE /\ slogouts' = slogouts + LogoutsOnReturn(sop)
         /\ spc' = "returned"
         /\ sleft' = 0
         /\ UNCHANGED <<sop, slogins>>

\* the query returns an error code: an exception is raised; a bulk operation
\* catches it inside the with block and goes on with the next instrument
OpQueryErrorCode ==
    /\ spc = "query"
    /\ IF sop \in Bulk
       THEN BulkGoesOn
       ELSE /\ slogouts' = slogouts + LogoutsOnErrorCode(sop)
            /\ spc' = "raised"
            /\ UNCHANGED <<sop, sleft, slogins>>
    /\ UNCHANGED notSess

\* the query itself raises or returns None (rs.error_code then raises)
OpQueryRaises ==
    /\ spc = "query"
    /\ IF sop \in Bulk THEN BulkGoesOn ELSE OpRaises
    /\ UNCHANGED notSess

\* rs.next() / rs.get_row_data() or the conversion of the rows raises
OpRowsRaise ==
    /\ spc = "rows"
    /\ IF sop \in Bulk THEN BulkGoesOn ELSE OpRaises
    /\ UNCHANGED notSess

\* the rows are read; a bulk operation queries the next instrument, the
\* others log out and return
OpRowsOk ==
    /\ spc = "rows"
    /\ IF sop \in Bulk
       THEN BulkGoesOn
       ELSE /\ slogouts' = slogouts + LogoutsOnReturn(sop)
            /\ spc' = "returned"
            /\ sleft' = 0
            /\ UNCHANGED <<sop, slogins>>
    /\ UNCHANGED notSess

\* ------------------------------------------------------- the scheduler

Tasks == {"initial_task", "daily_task"}

TicksPerDay == HoursPerDay * TicksPerHour
\* await asyncio.sleep(3600): one hour
CoolDown == TicksPerHour
\* the last instant of the clock
MaxClock == (MaxDay + 1) * TicksPerDay

\* now.replace(hour=20, minute=0, second=0, microsecond=0): the day of t, at
\* the trigger hour
AtTriggerHour(t) == (t \div TicksPerDay) * TicksPerDay + TRIGGER_HOUR * TicksPerHour

\* a test that lets the trigger instant itself pass as not yet reached
StrictlyPast(n, t) == n > t

\* if now >= target_time
PastTarget(n, t) == n >= t

\* the next trigger: today's, or tomorrow's when today's is reached
NextTrigger(n) ==
    IF PastTarget(n, AtTriggerHour(n)) THEN AtTriggerHour(n) + TicksPerDay
    ELSE AtTriggerHour(n)

\* a loop without `except asyncio.CancelledError`
CancelEscapes(pc) == "cancelled"

\* CancelledError thrown into daily_task at its await: inside the try it is
\* caught and the loop breaks; the cool-down sleep is in the except clause,
\* outside the try, and the error leaves the task
OnCancelled(pc) ==
    IF pc \in {"sleep", "members", "refresh"} THEN "returned" ELSE "cancelled"

\* a loop without `except Exception`
ExceptionEscapes(pc) == "raised"

\* an exception of the scheduled run: except Exception logs it and sleeps
OnException(pc) == "cooldown"

\* an initial task without its try
InitialEscapes(pc) == "raised"

\* an exception of the initial load: except Exception logs it, the task ends
OnInitialException(pc) == "returned"

\* the top of the while loop up to the await: now, target_time, wait_seconds
ComputeAndSleep(t) ==
    /\ now' = t
    /\ target_time' = NextTrigger(t)
    /\ wait_seconds' = NextTrigger(t) - t
    /\ dpc' = "sleep"

\* lifespan up to its yield: init_db (a failure is logged), the two tasks
\* are created
Startup ==
    /\ lpc = "startup"
    /\ lpc' = "serving"
    /\ ipc' = "created"
    /\ dpc' = "created"
    /\ UNCHANGED <<must_cancel, clock, now, target_time, wait_seconds, cancelAt,
                   aborted, startedAfter, failures, ifailed>>
    /\ UNCHANGED notSched

\* initial_task runs up to await fetch_all_index_stocks()
InitialStarts ==
    /\ ipc = "created"
    /\ ipc' = "members"
    /\ UNCHANGED <<lpc, dpc, must_cancel, clock, now, target_time, wait_seconds,
                   cancelAt, aborted, startedAfter, failures, ifailed>>
    /\ UNCHANGED notSched

\* a unit of work of initial_task returns: the backfill after the members,
\* the end of the task after the backfill
InitialStepOk ==
    /\ ipc \in {"members", "backfill"}
    /\ ~must_cancel["initial_task"]
    /\ ipc' = IF ipc = "members" THEN "backfill" ELSE "returned"
    /\ UNCHANGED <<lpc, dpc, must_cancel, clock, now, target_time, wait_seconds,
                   cancelAt, aborted, startedAfter, failures, ifailed>>
    /\ UNCHANGED notSched

\* a unit of work of initial_task raises
InitialStepRaises ==
    /\ ipc \in {"members", "backfill"}
    /\ ~must_cancel["initial_task"]
    /\ ipc' = OnInitialException(ipc)
    /\ ifailed' = TRUE
    /\ UNCHANGED <<lpc, dpc, must_cancel, clock, now, target_time, wait_seconds,
                   cancelAt, aborted, startedAfter, failures>>
    /\ UNCHANGED notSched

\* daily_task runs up to its first await asyncio.sleep(wait_seconds)
DailyStarts ==
    /\ dpc = "created"
    /\ ComputeAndSleep(clock)
    /\ UNCHANGED <<lpc, ipc, must_cancel, clock, cancelAt, aborted, startedAfter,
                   failures, ifailed>>
    /\ UNCHANGED notSched

\* the sleep returns at the trigger, or a tick late: fetch_all_index_stocks
\* is awaited
Trigger(late) ==
    /\ dpc = "sleep"
    /\ ~must_cancel["daily_task"]
    /\ target_time + late <= MaxClock
    /\ clock' = target_time + late
    /\ dpc' = "members"
    /\ startedAfter' = (startedAfter \/ lpc # "serving")
    /\ UNCHANGED <<lpc, ipc, must_cancel, now, target_time, wait_seconds, cancelAt,
                   aborted, failures, ifailed>>
    /\ UNCHANGED notSched

\* fetch_all_index_stocks returns: refresh_daily_data is awaited
MembersDone(took) ==
    /\ dpc = "members"
    /\ ~must_cancel["daily_task"]
    /\ clock + took <= MaxClock
    /\ clock' = clock + took
    /\ dpc' = "refresh"
    /\ startedAfter' = (startedAfter \/ lpc # "serving")
    /\ UNCHANGED <<lpc, ipc, must_cancel, now, target_time, wait_seconds, cancelAt,
                   aborted, failures, ifailed>>
    /\ UNCHANGED notSched

\* refresh_daily_data returns: the loop computes the next trigger and sleeps
RefreshDone(took) ==
    /\ dpc = "refresh"
    /\ ~must_cancel["daily_task"]
    /\ clock + took <= MaxClock
    /\ clock' = clock + took
    /\ ComputeAndSleep(clock + took)
    /\ UNCHANGED <<lpc, ipc, must_cancel, cancelAt, aborted, startedAfter, failures,
                   ifailed>>
    /\ UNCHANGED notSched

\* fetch_all_index_stocks or refresh_daily_data raises
RunRaises(took) ==
    /\ dpc \in {"members", "refresh"}
    /\ ~must_cancel["daily_task"]
    /\ clock + took <= MaxClock
    /\ clock' = clock + took
    /\ dpc' = OnException(dpc)
    /\ failures' = failures + 1
    /\ UNCHANGED <<lpc, ipc, must_cancel, now, target_time, wait_seconds, cancelAt,
                   aborted, startedAfter, ifailed>>
    /\ UNCHANGED notSched

\* the cool-down sleep returns: the loop computes the next trigger and sleeps
CooldownDone ==
    /\ dpc = "cooldown"
    /\ ~must_cancel["daily_task"]
    /\ clock + CoolDown <= MaxClock
    /\ clock' = clock + CoolDown
    /\ ComputeAndSleep(clock + CoolDown)
    /\ UNCHANGED <<lpc, ipc, must_cancel, cancelAt, aborted, startedAfter, failures,
                   ifailed>>
    /\ UNCHANGED notSched

\* lifespan after its yield: initial_task.cancel(), daily_task.cancel(); both
\* tasks have run to an await by then; cancel() of a finished task does nothing
Shutdown ==
    /\ lpc = "serving"
    /\ ipc # "created" /\ dpc # "created"
    /\ lpc' = "stopping"
    /\ must_cancel' = [t \in Tasks |->
                          IF t = "initial_task" THEN ipc \in {"members", "backfill"}
                          ELSE dpc \in {"sleep", "members", "refresh", "cooldown"}]
    /\ cancelAt' = dpc
    /\ UNCHANGED <<ipc, dpc, clock, now, target_time, wait_seconds, aborted,
                   startedAfter, failures, ifailed>>
    /\ UNCHANGED notSched

\* CancelledError is thrown into initial_task at its await: it is no
\* Exception, the except clause lets it pass
InitialCancelled ==
    /\ must_cancel["initial_task"]
    /\ must_cancel' = [must_cancel EXCEPT !["initial_task"] = FALSE]
    /\ ipc' = "cancelled"
    /\ aborted' = aborted \cup {"initial_task"}
    /\ UNCHANGED <<lpc, dpc, clock, now, target_time, wait_seconds, cancelAt,
                   startedAfter, failures, ifailed>>
    /\ UNCHANGED notSched

\* CancelledError is thrown into daily_task at its await
DailyCancelled ==
    /\ must_cancel["daily_task"]
    /\ must_cancel' = [must_cancel EXCEPT !["daily_task"] = FALSE]
    /\ dpc' = OnCancelled(dpc)
    /\ aborted' = IF dpc \in {"members", "refresh"} THEN aborted \cup {"daily_task"}
                  ELSE aborted
    /\ UNCHANGED <<lpc, ipc, clock, now, target_time, wait_seconds, cancelAt,
                   startedAfter, failures, ifailed>>
    /\ UNCHANGED notSched

\* await initial_task, await daily_task: both have ended, a CancelledError of
\* either is caught
LifespanEnds ==
    /\ lpc = "stopping"
    /\ ipc \in {"returned", "cancelled"}
    /\ dpc \in {"returned", "cancelled"}
    /\ lpc' = "stopped"
    /\ UNCHANGED <<ipc, dpc, must_cancel, clock, now, target_time, wait_seconds,
                   cancelAt, aborted, startedAfter, failures, ifailed>>
    /\ UNCHANGED notSched

\* ------------------------------------------------- the crossover detector

\* a value of a float column: NaN, or the mean sum / n kept as a fraction
NaN == [nan |-> TRUE, sum |-> 0, n |-> 1]
Mean(total, n) == [nan |-> FALSE, sum |-> total, n |-> n]

\* the sum of rows a..b of a series
RECURSIVE RowSum(_, _, _)
RowSum(series, a, b) ==
    IF a > b THEN 0 ELSE series[a] + RowSum(series, a + 1, b)

\* df['close'].rolling(window=window).mean(): NaN on the rows that have
\* fewer than window rows up to them
calculate_sma(series, window) ==
    [t \in 1..Len(series) |->
        IF t < window THEN NaN
        ELSE Mean(RowSum(series, t - window + 1, t), window)]

\* a comparison with the same day's values
NoShift(column) == column

\* column.shift(1): every value one row down, NaN on the first row
Shift(column) ==
    [t \in 1..Len(column) |-> IF t = 1 THEN NaN ELSE column[t - 1]]

\* a > b and a <= b on floats: False when either is NaN
Gt(a, b) == ~a.nan /\ ~b.nan /\ a.sum * b.n > b.sum * a.n
Le(a, b) == ~a.nan /\ ~b.nan /\ a.sum * b.n <= b.sum * a.n

\* column Crossover of detect_golden_cross, for two windows
golden_cross(series, short, long) ==
    LET sma_short == calculate_sma(series, short)
        sma_long == calculate_sma(series, long)
        prev_short == Shift(sma_short)
        prev_long == Shift(sma_long)
    IN  [t \in 1..Len(series) |->
            Gt(sma_short[t], sma_long[t]) /\ Le(prev_short[t], prev_long[t])]

\* detect_golden_cross(df): the windows are 5 and 10
detect_golden_cross(series) == golden_cross(series, SMA_SHORT, SMA_LONG)

\* the detector is run on the frame
Detect ==
    /\ gpc = "idle"
    /\ crossover' = IF short_window = SMA_SHORT /\ long_window = SMA_LONG
                    THEN detect_golden_cross(close)
                    ELSE golden_cross(close, short_window, long_window)
    /\ gpc' = "done"
    /\ UNCHANGED <<close, short_window, long_window>>
    /\ UNCHANGED notSma

\* ------------------------------------------------------ the MACD detector

\* calculate_macd(df, fastperiod=12, slowperiod=26, signalperiod=9)
FASTPERIOD == 12
SLOWPERIOD == 26
SIGNALPERIOD == 9

RECURSIVE Pow(_, _)
Pow(b, e) == IF e = 0 THEN 1 ELSE b * Pow(b, e - 1)

\* column.ewm(span=span, adjust=False).mean() at row t, times (span + 1)^(t-1):
\* the first row is the value itself, every later row is
\* alpha * x + (1 - alpha) * previous with alpha = 2 / (span + 1)
RECURSIVE EmaNum(_, _, _)
EmaNum(series, span, t) ==
    IF t = 1 THEN series[1]
    ELSE 2 * series[t] * Pow(span + 1, t - 2) + (span - 1) * EmaNum(series, span, t - 1)

\* df['MACD'] = ema_fast - ema_slow at row t, times ((fast+1)(slow+1))^(t-1)
MacdNum(series, fast, slow, t) ==
    EmaNum(series, fast, t) * Pow(slow + 1, t - 1)
    - EmaNum(series, slow, t) * Pow(fast + 1, t - 1)

\* df['Signal'] = df['MACD'].ewm(span=signalperiod, adjust=False).mean() at
\* row t, times ((fast+1)(slow+1)(signal+1))^(t-1)
RECURSIVE SignalNum(_, _, _, _, _)
SignalNum(series, fast, slow, signal, t) ==
    IF t = 1 THEN MacdNum(series, fast, slow, 1)
    ELSE 2 * MacdNum(series, fast, slow, t) * Pow(signal + 1, t - 2)
         + (signal - 1) * (fast + 1) * (slow + 1) * SignalNum(series, fast, slow, signal, t - 1)

\* MACD above Signal at row t, and MACD at or below it
MacdAbove(series, fast, slow, signal, t) ==
    MacdNum(series, fast, slow, t) * Pow(signal + 1, t - 1)
        > SignalNum(series, fast, slow, signal, t)
MacdNotAbove(series, fast, slow, signal, t) ==
    MacdNum(series, fast, slow, t) * Pow(signal + 1, t - 1)
        <= SignalNum(series, fast, slow, signal, t)

\* column Crossover of detect_macd_golden_cross: (MACD > Signal) and
\* (prev_macd <= prev_signal); the shifted columns are NaN on the first row
detect_macd_golden_cross(series) ==
    [t \in 1..Len(series) |->
        /\ MacdAbove(series, FASTPERIOD, SLOWPERIOD, SIGNALPERIOD, t)
        /\ t > 1
        /\ MacdNotAbove(series, FASTPERIOD, SLOWPERIOD, SIGNALPERIOD, t - 1)]

\* --------------------------------------------------- the detection runs

Variants == {"sma", "macd"}

\* the rows the store returns for a code: the closing prices in date order,
\* the date of a row being its trading day
Frame(series) == [t \in 1..Len(series) |-> [date |-> t, close |-> series[t]]]
CloseOf(data) == [t \in 1..Len(data) |-> data[t].close]

\* cross_points = detect_..(data); cross_points[cross_points['Crossover'] == True]
cross_points(v, data) ==
    LET column == IF v = "sma" THEN detect_golden_cross(CloseOf(data))
                  ELSE detect_macd_golden_cross(CloseOf(data))
    IN  {t \in 1..Len(data) : column[t]}

\* cross_points['date'].iloc[-1]: the date of the last flagged row
last_cross_date(data, flagged) ==
    data[CHOOSE t \in flagged : \A u \in flagged : u <= t].date

\* the row that .iloc[-k] names in a frame of n rows: the k-th from the end,
\* row 1 for -0, and 0 for the IndexError of a position outside the frame
ILocFromEnd(n, k) ==
    IF k = 0 THEN (IF n >= 1 THEN 1 ELSE 0)
    ELSE IF k <= n THEN n - k + 1
    ELSE 0

\* the entry of stock_list the loop is at
Entry == stock_list[di + 1]

\* the body of the loop on the rows read for one entry: continue when no row
\* is flagged; else data['date'].iloc[-detect_days] is looked up, which
\* raises IndexError outside the frame; else append when the last flagged
\* date is at or after that date
Lookback(v, data, k) ==
    LET flagged == cross_points(v, data)
        at == ILocFromEnd(Len(data), k)
    IN  IF flagged = {} THEN "continue"
        ELSE IF at = 0 THEN "IndexError"
        ELSE IF last_cross_date(data, flagged) >= data[at].date THEN "append"
        ELSE "continue"

\* if not code: continue; if not stock_data: continue; then the body
Body(v, entry, frames, k) ==
    IF entry.code = NoCode THEN "continue"
    ELSE IF frames[entry.code] = <<>> THEN "continue"
    ELSE Lookback(v, Frame(frames[entry.code]), k)

\* the call: golden_cross = []
DetectBegin ==
    /\ xpc = "idle"
    /\ xpc' = "loop"
    /\ UNCHANGED <<variant, stock_list, frame_of, detect_days, di, golden_cross_df>>
    /\ UNCHANGED notDet

\* continue: the loop goes to the next entry
DetectSkip ==
    /\ xpc = "loop"
    /\ di < Len(stock_list)
    /\ Body(variant, Entry, frame_of, detect_days) = "continue"
    /\ di' = di + 1
    /\ UNCHANGED <<variant, stock_list, frame_of, detect_days, golden_cross_df, xpc>>
    /\ UNCHANGED notDet

\* golden_cross.append({'Code', 'Name', 'Last Cross Date'})
DetectEmit ==
    /\ xpc = "loop"
    /\ di < Len(stock_list)
    /\ Body(variant, Entry, frame_of, detect_days) = "append"
    /\ LET data == Frame(frame_of[Entry.code])
       IN  golden_cross_df' =
               Append(golden_cross_df,
                      [Code |-> Entry.code, Name |-> Entry.name,
                       LastCrossDate |->
                           last_cross_date(data, cross_points(variant, data))])
    /\ di' = di + 1
    /\ UNCHANGED <<variant, stock_list, frame_of, detect_days, xpc>>
    /\ UNCHANGED notDet

\* the IndexError of the lookup: nothing in the loop catches it, the run ends
\* with it
DetectIndexError ==
    /\ xpc = "loop"
    /\ di < Len(stock_list)
    /\ Body(variant, Entry, frame_of, detect_days) = "IndexError"
    /\ di' = di + 1
    /\ xpc' = "raised"
    /\ UNCHANGED <<variant, stock_list, frame_of, detect_days, golden_cross_df>>
    /\ UNCHANGED notDet

\* return pd.DataFrame(golden_cross)
DetectReturn ==
    /\ xpc = "loop"
    /\ di = Len(stock_list)
    /\ xpc' = "returned"
    /\ UNCHANGED <<variant, stock_list, frame_of, detect_days, di, golden_cross_df>>
    /\ UNCHANGED notDet

\* ------------------------------------------------ the trade simulation

\* a ratio of two integers
Frac(a, b) == [num |-> a, den |-> b]
\* the result of a backtest without a trade: the reported insufficient-data
\* condition, which is no triple of numbers
InsufficientData ==
    [insufficient |-> TRUE, tradeCount |-> 0, avgProfit |-> Frac(0, 1),
     avgProfitRatio |-> Frac(0, 1), winProbability |-> Frac(0, 1)]

\* a simulation that drops the trades whose holding period runs past the series
DiscardTruncated(closes, t, hold_days) ==
    IF t + hold_days <= Len(closes) THEN t + hold_days ELSE 0

\* the row a position opened at row t is closed at: hold_days rows later, or
\* the last available row if the series ends first
ExitRow(closes, t, hold_days) ==
    IF t + hold_days <= Len(closes) THEN t + hold_days ELSE Len(closes)

\* the trades of the entry rows, one each: exit close minus entry close
Profit(closes, t, hold_days) ==
    closes[ExitRow(closes, t, hold_days)] - closes[t]

\* the entry rows that give a trade
Traded(closes, entries, hold_days) ==
    {t \in entries \cap (1..Len(closes)) : ExitRow(closes, t, hold_days) # 0}

\* the sum of the profits, and of the profit ratios profit / entryClose, of
\* the trades entered at the rows of a set
RECURSIVE ProfitSum(_, _, _)
ProfitSum(closes, rows, hold_days) ==
    IF rows = {} THEN 0
    ELSE LET t == CHOOSE u \in rows : \A w \in rows : w <= u
         IN  Profit(closes, t, hold_days) + ProfitSum(closes, rows \ {t}, hold_days)
RECURSIVE RatioSum(_, _, _)
RatioSum(closes, rows, hold_days) ==
    IF rows = {} THEN Frac(0, 1)
    ELSE LET t == CHOOSE u \in rows : \A w \in rows : w <= u
             rest == RatioSum(closes, rows \ {t}, hold_days)
         IN  Frac(rest.num * closes[t] + Profit(closes, t, hold_days) * rest.den,
                  rest.den * closes[t])

\* runBacktest(bars, entrySignalDates, holdDays): the means of the profits
\* and of the profit ratios, the fraction of trades with profit > 0, the
\* number of trades; the insufficient-data condition when there is no trade
runBacktest(closes, entries, hold_days) ==
    LET rows == Traded(closes, entries, hold_days)
        n == Cardinality(rows)
    IN  IF n = 0 THEN InsufficientData
        ELSE [insufficient |-> FALSE,
              tradeCount |-> n,
              avgProfit |-> Frac(ProfitSum(closes, rows, hold_days), n),
              avgProfitRatio |-> Frac(RatioSum(closes, rows, hold_days).num,
                                      RatioSum(closes, rows, hold_days).den * n),
              winProbability |->
                  Frac(Cardinality({t \in rows : Profit(closes, t, hold_days) > 0}), n)]

\* sma.runstrat(data, args): the backtest of the rows the two moving
\* averages flag as entry signals
runstrat(closes, sma1, sma2, hold_days) ==
    LET column == golden_cross(closes, sma1, sma2)
    IN  runBacktest(closes, {t \in 1..Len(closes) : column[t]}, hold_days)

\* --------------------------------------- the indicator and backtest code

\* a field of the request that is not given (None); windows and holding
\* periods are positive
NoArg == 0
\* if len(data) < 10
MIN_ROWS == 10
\* if len(df) < 55
INDICATOR_ROWS == 55
\* hold_days = request.hold_days if request.hold_days is not None else 21
HOLD_DAYS == 21

\* what a query gives: the provider raises, or returns None, or rows; the
\* store gives rows, none when it has none
Raises == [kind |-> "raises", rows |-> <<>>]
NoFrame == [kind |-> "None", rows |-> <<>>]
Rows(closes) == [kind |-> "rows", rows |-> closes]

NoResponse ==
    [status |-> 0, error |-> None, required |-> 0, actual |-> 0,
     result |-> InsufficientData]
\* raise HTTPException(status_code, detail)
HTTPException(code, kind, need, have) ==
    [status |-> code, error |-> kind, required |-> need, actual |-> have,
     result |-> InsufficientData]
\* the response of a backtest that was run
Completed(r) ==
    [status |-> 200, error |-> None, required |-> 0, actual |-> 0, result |-> r]

\* request.sma1 if request.sma1 is not None else 5, and so on
Sma1Of(r) == IF r.sma1 # NoArg THEN r.sma1 ELSE SMA_SHORT
Sma2Of(r) == IF r.sma2 # NoArg THEN r.sma2 ELSE SMA_LONG
HoldOf(r) == IF r.hold_days # NoArg THEN r.hold_days ELSE HOLD_DAYS

\* a caller that takes the insufficient-data condition for zeros
UnpackAsZeros(r) == FALSE

\* avg_profit, avg_profit_ratio, win_prob = sma.runstrat(data): a result that
\* is no triple of numbers cannot be unpacked, the statement raises
UnpackRaises(r) == r.insufficient

\* sma_backtest up to the fetch: with BaoStockWrapper() as bs_wrapper logs in,
\* get_stock_data queries, the with block logs out; an exception of the
\* provider is answered 404
BtFetch ==
    /\ hpc = "called"
    /\ request.kind = "backtest"
    /\ io' = io \o <<"login", "query", "logout">>
    /\ IF feed = Raises
       THEN /\ response' = HTTPException(404, "provider", 0, 0)
            /\ hpc' = "returned"
       ELSE /\ hpc' = "fetched"
            /\ UNCHANGED response
    /\ UNCHANGED <<request, feed, content>>
    /\ UNCHANGED notBt

\* sma_backtest after the fetch: no data, too few rows, the windows, then
\* the backtest; except Exception answers 500
BtRespond ==
    /\ hpc = "fetched"
    /\ request.kind = "backtest"
    /\ response' =
          IF feed = NoFrame \/ feed.rows = <<>>
          THEN HTTPException(404, "nodata", 0, 0)
          ELSE IF Len(feed.rows) < MIN_ROWS
          THEN HTTPException(400, "sufficiency", MIN_ROWS, Len(feed.rows))
          ELSE IF Sma1Of(request) >= Sma2Of(request)
          THEN HTTPException(400, "parameter", 0, 0)
          ELSE LET r == runstrat(feed.rows, Sma1Of(request), Sma2Of(request),
                                 HoldOf(request))
               IN  IF UnpackRaises(r) THEN HTTPException(500, "internal", 0, 0)
                   ELSE Completed(r)
    /\ hpc' = "returned"
    /\ UNCHANGED <<request, feed, io, content>>
    /\ UNCHANGED notBt

\* the value of the indicators of a frame: the latest close
IndicatorsOf(closes) ==
    [insufficient |-> FALSE, tradeCount |-> 0, avgProfit |-> Frac(closes[Len(closes)], 1),
     avgProfitRatio |-> Frac(0, 1), winProbability |-> Frac(0, 1)]

\* get_stock_indicators: the rows are read from the store; none is answered
\* 404, fewer than 55 is answered 400 with both counts
GetIndicators ==
    /\ hpc = "called"
    /\ request.kind = "indicators"
    /\ feed.kind = "rows"
    /\ io' = io \o <<"store">>
    /\ response' =
          IF feed.rows = <<>> THEN HTTPException(404, "nodata", 0, 0)
          ELSE IF Len(feed.rows) < INDICATOR_ROWS
          THEN HTTPException(400, "sufficiency", INDICATOR_ROWS, Len(feed.rows))
          ELSE Completed(IndicatorsOf(feed.rows))
    /\ hpc' = "returned"
    /\ UNCHANGED <<request, feed, content>>
    /\ UNCHANGED notBt

\* if avg_profit_ratio >= 0.02 and win_prob >= 0.5
PassesThreshold(r) ==
    /\ r.avgProfitRatio.num * 100 >= 2 * r.avgProfitRatio.den
    /\ r.winProbability.num * 2 >= r.winProbability.den

\* the backtest loop of do_search on one row of golden_cross_df: the rows are
\* read from the store, none is skipped; the backtest is run with its default
\* windows and the instrument is appended to content when it passes
SearchBacktest ==
    /\ hpc = "called"
    /\ request.kind = "search"
    /\ feed.kind = "rows"
    /\ io' = io \o <<"store">>
    /\ IF feed.rows = <<>>
       THEN /\ hpc' = "returned"
            /\ UNCHANGED <<response, content>>
       ELSE LET r == runstrat(feed.rows, SMA_SHORT, SMA_LONG, HOLD_DAYS)
            IN  IF UnpackRaises(r)
                THEN /\ hpc' = "raised"
                     /\ response' = HTTPException(500, "internal", 0, 0)
                     /\ UNCHANGED content
                ELSE /\ hpc' = "returned"
                     /\ response' = Completed(r)
                     /\ content' = IF PassesThreshold(r)
                                   THEN Append(content, r) ELSE content
    /\ UNCHANGED <<request, feed>>
    /\ UNCHANGED notBt

\* runBacktest on a bar series and the entry signals given with it
Simulate ==
    /\ hpc = "called"
    /\ request.kind = "simulate"
    /\ feed.kind = "rows"
    /\ response' = Completed(runBacktest(feed.rows, request.entries, HoldOf(request)))
    /\ hpc' = "returned"
    /\ UNCHANGED <<request, feed, io, content>>
    /\ UNCHANGED notBt

\* ------------------------------------------- fetch_and_save_stock_data

\* what get_stock_data returns: a frame without rows, or one with rows
FetchValues == {"empty", "rows"}
\* len(data) of the frame with rows
RowCount == 1

\* fetch_stock_daily_data: return retry_on_failure(...), and
\* except Exception: return None
Swallow(pc, value, error) == IF pc = "raised" THEN "None" ELSE value

\* retry_on_failure has returned or raised inside fetch_stock_daily_data
FetchReturns ==
    /\ fspc = "fetch"
    /\ rpc \in {"returned", "raised"}
    /\ df' = Swallow(rpc, result, raised)
    /\ fspc' = "fetched"
    /\ UNCHANGED <<count, escaped>>
    /\ UNCHANGED retryVars
    /\ UNCHANGED notSingle

\* if df is None or df.empty: return 0; else the rows are saved and counted;
\* an exception of the save is logged and 0 is returned
SaveReturns(ok) ==
    /\ fspc = "fetched"
    /\ count' = IF df \in {"None", "empty"} THEN 0
                ELSE IF ok THEN RowCount ELSE 0
    /\ fspc' = "returned"
    /\ UNCHANGED <<df, escaped>>
    /\ UNCHANGED retryVars
    /\ UNCHANGED notSingle

\* ------------------------------------------------- a query of the bars

\* get_stock_daily_data_from_db(code, start_date, end_date) is called and
\* returns the rows of its SELECT
QueryBars ==
    /\ qpc = "called"
    /\ answer' = get_stock_daily_data_from_db(stock_daily_data, query.code,
                                              query.start_date, query.end_date)
    /\ qpc' = "returned"
    /\ UNCHANGED query
    /\ UNCHANGED notQuery

\* ------------------------------------------------- the chat session

\* ChatState
INIT == "init"
AUTHENTICATED == "authenticated"
READY == "ready"
CHATTING == "chatting"

\* the API keys of the configuration, and the keys a client sends: a valid
\* one, one that is not, none
ValidKeys == {"key"}
ApiKeys == {"key", "wrong", ""}
\* the device ids a client sends; the state machine has none before (None)
NoDevice == ""
DeviceIds == {"d1", NoDevice}
\* the content of a chat message
Contents == {"hi", ""}

\* ServerResponse(type, status)
ServerResponse(type, status) == [type |-> type, status |-> status]

\* a test that lets a session chat once it is authenticated
IsAuthenticated(st) == st # INIT

\* current_state == READY or current_state == CHATTING
CanChat(st) == st = READY \/ st = CHATTING

\* chat_service.save_message: appended to the history of the device, dropped
\* with a warning when the device has none
save_message(h, dev, role, text, type) ==
    IF dev \in DOMAIN h
    THEN [h EXCEPT ![dev] = Append(@, [role |-> role, content |-> text, type |-> type])]
    ELSE h

\* chat_service.register_device: a history is created unless there is one
register_device(h, dev) ==
    IF dev \in DOMAIN h THEN h
    ELSE [d \in DOMAIN h \cup {dev} |-> IF d = dev THEN <<>> ELSE h[d]]

\* the reply of agent_service.process
Reply == "reply"

\* a message was received: counted, its type noted
Receive(type) ==
    /\ received < MaxMessages
    /\ received' = received + 1
    /\ last_message' = type

\* handle_auth
HandleAuth(key) ==
    /\ Receive("auth")
    /\ IF state # INIT
       THEN /\ sent' = ServerResponse("error", "error")
            /\ UNCHANGED <<state, api_key, handshake>>
       ELSE IF key = ""
       THEN /\ sent' = ServerResponse("auth", "error")
            /\ UNCHANGED <<state, api_key, handshake>>
       ELSE IF key \in ValidKeys
       THEN /\ api_key' = key
            /\ state' = AUTHENTICATED
            /\ handshake' = Append(handshake, "auth")
            /\ sent' = ServerResponse("auth", "success")
       ELSE /\ sent' = ServerResponse("auth", "error")
            /\ UNCHANGED <<state, api_key, handshake>>
    /\ UNCHANGED <<device_id, device_histories, agent_inputs>>
    /\ UNCHANGED notChat

\* handle_register: the device is registered, the state machine goes to READY
\* and on to CHATTING
HandleRegister(dev) ==
    /\ Receive("register")
    /\ IF state # AUTHENTICATED
       THEN /\ sent' = ServerResponse("error", "error")
            /\ UNCHANGED <<state, device_id, device_histories, handshake>>
       ELSE IF dev = NoDevice
       THEN /\ sent' = ServerResponse("register", "error")
            /\ UNCHANGED <<state, device_id, device_histories, handshake>>
       ELSE /\ device_histories' = register_device(device_histories, dev)
            /\ device_id' = dev
            /\ state' = CHATTING
            /\ handshake' = Append(handshake, "register")
            /\ sent' = ServerResponse("register", "success")
    /\ UNCHANGED <<api_key, agent_inputs>>
    /\ UNCHANGED notChat

\* on_message: the user message is saved, the agent is called with it, its
\* reply is saved and sent
OnMessage(text) ==
    /\ Receive("chat")
    /\ IF ~CanChat(state)
       THEN /\ sent' = ServerResponse("error", "error")
            /\ UNCHANGED <<state, device_histories, agent_inputs>>
       ELSE IF text = ""
       THEN /\ sent' = ServerResponse("chat", "error")
            /\ UNCHANGED <<state, device_histories, agent_inputs>>
       ELSE /\ state' = IF state = READY THEN CHATTING ELSE state
            /\ agent_inputs' =
                  Append(agent_inputs, [user_input |-> text, device_id |-> device_id])
            /\ device_histories' =
                  save_message(save_message(device_histories, device_id, "user",
                                            text, "text"),
                               device_id, "assistant", Reply, "text")
            /\ sent' = ServerResponse("chat", "success")
    /\ UNCHANGED <<api_key, device_id, handshake>>
    /\ UNCHANGED notChat

\* on_audio: the audio is saved to a file, or the save fails; the file name
\* is the user message
OnAudio(saved) ==
    /\ Receive("audio")
    /\ IF ~CanChat(state)
       THEN /\ sent' = ServerResponse("error", "error")
            /\ UNCHANGED <<state, device_histories, agent_inputs>>
       ELSE IF ~saved
       THEN /\ sent' = ServerResponse("chat", "error")
            /\ UNCHANGED <<state, device_histories, agent_inputs>>
       ELSE /\ state' = IF state = READY THEN CHATTING ELSE state
            /\ agent_inputs' =
                  Append(agent_inputs, [user_input |-> "audio", device_id |-> device_id])
            /\ device_histories' =
                  save_message(save_message(device_histories, device_id, "user",
                                            "file", "audio"),
                               device_id, "assistant", Reply, "text")
            /\ sent' = ServerResponse("chat", "success")
    /\ UNCHANGED <<api_key, device_id, handshake>>
    /\ UNCHANGED notChat

\* process_message on a type that is none of auth, register, chat
OnOther ==
    /\ Receive("other")
    /\ sent' = ServerResponse("error", "error")
    /\ UNCHANGED <<state, api_key, device_id, device_histories, agent_inputs, handshake>>
    /\ UNCHANGED notChat

\* ------------------------------------------------- the state machine

\* the arguments a caller gives authenticate and register_device: strings,
\* the empty one among them
KeyArgs == {"key", ""}
DeviceArgs == {"d1", ""}

\* a guard that lets every authenticated state register
\* (IsAuthenticated, above)

\* if self.state != ChatState.AUTHENTICATED: return False
CanRegister(st) == st = AUTHENTICATED

\* a reset of the state only
ResetStateOnly == [state |-> INIT, api_key |-> api_key, device_id |-> device_id]

\* reset: INIT, no api_key, no device_id
AfterReset == [state |-> INIT, api_key |-> None, device_id |-> None]

\* a call is made: noted with its argument
Call(op, arg) ==
    /\ Len(called) < MaxCalls
    /\ called' = Append(called, [op |-> op, arg |-> arg])

\* authenticate(api_key)
Authenticate(key) ==
    /\ Call("authenticate", key)
    /\ IF state # INIT
       THEN /\ returned' = "False"
            /\ UNCHANGED <<state, api_key>>
       ELSE /\ api_key' = key
            /\ state' = AUTHENTICATED
            /\ returned' = "True"
    /\ UNCHANGED device_id
    /\ UNCHANGED notMachine

\* register_device(device_id)
RegisterDevice(dev) ==
    /\ Call("register_device", dev)
    /\ IF ~CanRegister(state)
       THEN /\ returned' = "False"
            /\ UNCHANGED <<state, device_id>>
       ELSE /\ device_id' = dev
            /\ state' = READY
            /\ returned' = "True"
    /\ UNCHANGED api_key
    /\ UNCHANGED notMachine

\* start_chatting()
StartChatting ==
    /\ Call("start_chatting", None)
    /\ IF state # READY
       THEN /\ returned' = "False"
            /\ UNCHANGED state
       ELSE /\ state' = CHATTING
            /\ returned' = "True"
    /\ UNCHANGED <<api_key, device_id>>
    /\ UNCHANGED notMachine

\* reset()
Reset ==
    /\ Call("reset", None)
    /\ state' = AfterReset.state
    /\ api_key' = AfterReset.api_key
    /\ device_id' = AfterReset.device_id
    /\ returned' = None
    /\ UNCHANGED notMachine

\* is_authenticated, is_ready
is_authenticated == state # INIT
is_ready == state = READY \/ state = CHATTING

MachineIdle == called = <<>> /\ returned = None

\* ------------------------------------------------- the task map

\* the two modules that keep a task map
Services == {"turtle", "KitAgent"}
\* str(uuid.uuid4()): an id no task has yet
TaskIds == 1 .. (MaxTasks + 1)
NoId == 0
\* the prompts of a request
Prompts == {"ab", ""}
\* str(e) of the exception a task may end on
TaskErrors == {"boom"}

\* the values of a result: None, a str, a dict
NoneValue == [none |-> TRUE]
\* a str, as the two parts it is put together from
Str(prefix, text) == [str |-> <<prefix, text>>]
Dict(d) == [dict |-> d]

\* prompt[::-1]
Reversed(prompt) == IF prompt = "ab" THEN "ba" ELSE prompt

\* what the awaited call returns: the output of run_agent_task, the dict of
\* AgentService.process
TaskOutput(svc, prompt) ==
    IF svc = "turtle" THEN Str("out", Reversed(prompt))
    ELSE Dict([success |-> TRUE, reply |-> Reply])
\* what the except stores: str(e), {"error": str(e)}
TaskError(svc, e) ==
    IF svc = "turtle" THEN Str("", e) ELSE Dict([error |-> e])

\* a wrapper that stores the status and leaves the result
StatusOnly(entry, st, res) == [entry EXCEPT !.status = st]

\* TASKS[task_id]["status"] = ...; TASKS[task_id]["result"] = ...
Finished(entry, st, res) ==
    [entry EXCEPT !.status = st, !.result = res]

\* start_task(prompt): a new id, its entry, the wrapper scheduled, the id
\* returned
StartTask(prompt) ==
    /\ Cardinality(issued) < MaxTasks
    /\ \E task_id \in TaskIds \ DOMAIN TASKS :
          /\ TASKS' = [i \in DOMAIN TASKS \cup {task_id} |->
                          IF i = task_id
                          THEN [status |-> "running", result |-> NoneValue]
                          ELSE TASKS[i]]
          /\ prompt_of' = [i \in DOMAIN TASKS \cup {task_id} |->
                              IF i = task_id THEN prompt ELSE prompt_of[i]]
          /\ issued' = issued \cup {task_id}
    /\ UNCHANGED <<service, asked, found>>
    /\ UNCHANGED notTasks

\* task_wrapper: the awaited call has returned
TaskReturns(task_id) ==
    /\ task_id \in DOMAIN TASKS
    /\ TASKS[task_id].status = "running"
    /\ TASKS' = [TASKS EXCEPT ![task_id] =
                    Finished(@, "completed", TaskOutput(service, prompt_of[task_id]))]
    /\ UNCHANGED <<service, prompt_of, issued, asked, found>>
    /\ UNCHANGED notTasks

\* task_wrapper: the awaited call has raised an Exception
TaskRaises(task_id, e) ==
    /\ task_id \in DOMAIN TASKS
    /\ TASKS[task_id].status = "running"
    /\ TASKS' = [TASKS EXCEPT ![task_id] = Finished(@, "failed", TaskError(service, e))]
    /\ UNCHANGED <<service, prompt_of, issued, asked, found>>
    /\ UNCHANGED notTasks

\* TASKS.get(task_id)
get_task_result(task_id) ==
    IF task_id \in DOMAIN TASKS THEN TASKS[task_id] ELSE NoneValue

\* get_task_result(task_id), of any id
GetTaskResult(task_id) ==
    /\ asked' = task_id
    /\ found' = get_task_result(task_id)
    /\ UNCHANGED <<service, TASKS, prompt_of, issued>>
    /\ UNCHANGED notTasks

\* the wrapper of a task ends
TaskEnds(task_id) ==
    \/ TaskReturns(task_id)
    \/ \E e \in TaskErrors : TaskRaises(task_id, e)

TasksInitWith(svc) ==
    /\ service = svc
    /\ TASKS = <<>>
    /\ prompt_of = <<>>
    /\ issued = {}
    /\ asked = NoId
    /\ found = NoneValue
TasksIdle == TasksInitWith("turtle")

\* ------------------------------------------------- the agent service

\* IntentType
IntentTypes == {"chat", "search", "reasoning", "music", "funcall"}

\* WORKFLOW_MAP: the workflow registered for each intent, by the name its
\* results carry
WORKFLOW_MAP == [i \in IntentTypes |-> i]

\* the parameters of BaseWorkflow.execute and of each workflow's, self aside
ExecuteParams == <<"chat_context">>

\* the context process builds
Context(req, i) ==
    [device_id |-> req.device_id,
     conversation_history |-> req.conversation_history,
     intent |-> i]

\* the arguments of the call workflow.execute(user_input, context)
ExecuteArgs(req, i) == <<req.user_input, Context(req, i)>>

\* a call binds its positional arguments when there is one for each
\* parameter; Python raises TypeError otherwise
Binds(params, args) == Len(args) = Len(params)

\* the exceptions a classifier or a workflow raises
Exceptions == {"TypeError", "ValueError"}

\* an except clause that names one exception class only
CatchesValueError(e) == e = "ValueError"

\* except Exception
ProcessCatches(e) == e \in Exceptions

\* the dict a workflow returns: a reply, or an error with an apology
WorkflowResult(w, ok) ==
    [success |-> ok, workflow |-> w, intent |-> None,
     error |-> IF ok THEN None ELSE "error", reply |-> Reply]
\* the dict process returns from its except
ExceptResult(e) ==
    [success |-> FALSE, workflow |-> "unknown", intent |-> None,
     error |-> e, reply |-> "sorry"]
\* no result yet
NoResult ==
    [success |-> FALSE, workflow |-> None, intent |-> None,
     error |-> None, reply |-> None]

\* process has ended on exception e: with the result of its except when the
\* except catches it, with the exception otherwise
AgentExcept(e) ==
    /\ apc' = "done"
    /\ IF ProcessCatches(e)
       THEN agent_result' = ExceptResult(e) /\ UNCHANGED agent_raised
       ELSE agent_raised' = e /\ UNCHANGED agent_result

\* intent_classifier.classify answers an intent
AgentClassify(i) ==
    /\ apc = "start"
    /\ intent_result' = i
    /\ apc' = "classified"
    /\ UNCHANGED <<agent_request, workflow_ok, invoked, agent_result, agent_raised>>
    /\ UNCHANGED notAgent

\* the call of the classifier raises
AgentClassifyRaises(e) ==
    /\ apc = "start"
    /\ AgentExcept(e)
    /\ UNCHANGED <<agent_request, intent_result, workflow_ok, invoked>>
    /\ UNCHANGED notAgent

\* the workflow of the intent is called and its result returned with the
\* intent; an exception gives the result of the except
AgentExecute ==
    /\ apc = "classified"
    /\ LET workflow == WORKFLOW_MAP[intent_result]
           args == ExecuteArgs(agent_request, intent_result)
       IN  IF Binds(ExecuteParams, args)
           THEN /\ invoked' = Append(invoked, [workflow |-> workflow, args |-> args])
                /\ agent_result' = [WorkflowResult(workflow, workflow_ok)
                                 EXCEPT !.intent = intent_result]
                /\ apc' = "done"
                /\ UNCHANGED agent_raised
           ELSE /\ AgentExcept("TypeError")
                /\ UNCHANGED invoked
    /\ UNCHANGED <<agent_request, intent_result, workflow_ok>>
    /\ UNCHANGED notAgent

AgentInitWith(pc, req, ok) ==
    /\ agent_request = req
    /\ intent_result = None
    /\ workflow_ok = ok
    /\ invoked = <<>>
    /\ agent_result = NoResult
    /\ agent_raised = None
    /\ apc = pc

AgentIdle ==
    AgentInitWith("idle", [user_input |-> "", device_id |-> NoDevice,
                           conversation_history |-> <<>>], FALSE)

\* the calls of process: a message, with or without a device id and an
\* earlier exchange
AgentRequests ==
    [user_input : {"hi", "play"},
     device_id : {"d1", NoDevice},
     conversation_history : {<<>>, <<"hello", Reply>>}]

\* ------------------------------------------------- the intent classifier

\* the keywords of _rule_based_classify, each the sequence of its characters
\* in pinyin; characters that sound alike carry a letter that tells them apart
search_keywords ==
    {<<"sou", "suo">>, <<"cha", "xun">>, <<"cha", "zhao">>, <<"zhao">>,
     <<"sou", "suo", "yi", "xia">>, <<"cha", "yi", "xia">>, <<"tian", "qiA">>,
     <<"xin", "wen">>, <<"gu", "piao">>}
reasoning_keywords ==
    {<<"ji", "suan">>, <<"suan">>, <<"qiu", "jie">>, <<"tui", "li">>,
     <<"fen", "xi">>, <<"wei", "shen", "me">>, <<"ru", "he">>, <<"zen", "me">>}
music_keywords ==
    {<<"bo", "fang">>, <<"yin", "yue">>, <<"ge", "qu">>, <<"tingL", "ge">>,
     <<"zan", "tingS">>, <<"xia", "yi", "shou">>, <<"qie", "ge">>}
funcall_keywords ==
    {<<"da", "kai">>, <<"guan", "bi">>, <<"she", "zhiP">>, <<"zhiE", "xing">>,
     <<"yun", "xing">>, <<"qiS", "dong">>, <<"tingS", "zhiS">>}

\* the characters of the inputs: of keywords of each group, and a capital
\* letter and its small letter
Chars == {"zhao", "cha", "suan", "ji", "bo", "fang", "da", "kai", "A", "a"}

\* str.lower
Lower(txt) == [k \in 1..Len(txt) |-> IF txt[k] = "A" THEN "a" ELSE txt[k]]

\* keyword in txt
Contains(keyword, txt) ==
    \E k \in 1..(Len(txt) - Len(keyword) + 1) :
        SubSeq(txt, k, k + Len(keyword) - 1) = keyword

\* any(keyword in txt for keyword in keywords)
AnyKeyword(keywords, txt) == \E keyword \in keywords : Contains(keyword, txt)

\* IntentResult(intent, confidence)
IntentResult(i, confidence) == [intent |-> i, confidence |-> confidence]

\* a classifier that tries the keywords of reasoning before those of search
ReasoningFirst(txt) ==
    IF AnyKeyword(reasoning_keywords, Lower(txt))
    THEN IntentResult("reasoning", Frac(8, 10))
    ELSE IF AnyKeyword(search_keywords, Lower(txt))
    THEN IntentResult("search", Frac(8, 10))
    ELSE IntentResult("chat", Frac(7, 10))

\* _rule_based_classify
rule_based_classify(txt) ==
    LET user_input_lower == Lower(txt)
    IN  IF AnyKeyword(search_keywords, user_input_lower)
        THEN IntentResult("search", Frac(8, 10))
        ELSE IF AnyKeyword(reasoning_keywords, user_input_lower)
        THEN IntentResult("reasoning", Frac(8, 10))
        ELSE IF AnyKeyword(music_keywords, user_input_lower)
        THEN IntentResult("music", Frac(8, 10))
        ELSE IF AnyKeyword(funcall_keywords, user_input_lower)
        THEN IntentResult("funcall", Frac(8, 10))
        ELSE IntentResult("chat", Frac(7, 10))

\* a call of _rule_based_classify
RuleBasedClassify ==
    /\ kpc = "start"
    /\ classified' = rule_based_classify(user_input)
    /\ kpc' = "done"
    /\ UNCHANGED user_input
    /\ UNCHANGED notIntent

IntentInitWith(pc, txt) ==
    /\ user_input = txt
    /\ classified = IntentResult(None, Frac(0, 1))
    /\ kpc = pc

IntentIdle == IntentInitWith("idle", <<>>)

\* the inputs: up to MaxInput characters
Inputs == UNION {[1..n -> Chars] : n \in 0..MaxInput}

\* ----------------------------------- membership refresh, then bar fetch

\* the three places that call fetch_all_index_stocks and then a bar fetch
Callers == {"initial_background_task", "daily_refresh_task", "refresh_daily_data_api"}

\* the bar fetch each of them calls
BarFetchOf(c) ==
    IF c = "initial_background_task" THEN "fetch_all_stocks_daily_data"
    ELSE "refresh_daily_data"

\* save_index_stocks committed: the rows of the index deleted, one row
\* inserted for every stock of the list that has a code
RECURSIVE InsertStocks(_, _, _, _)
InsertStocks(tbl, tag, stocks, k) ==
    IF k > Len(stocks) THEN tbl
    ELSE InsertStocks(IF stocks[k].code # NoCode
                      THEN InsertOrReplaceIndex(tbl, IndexRow(tag, stocks[k]))
                      ELSE tbl,
                      tag, stocks, k + 1)
SavedIndexStocks(tbl, tag, stocks) == InsertStocks(DeleteIndex(tbl, tag), tag, stocks, 1)

\* where a fetch-and-save has ended
Ended == {"returned", "fetch_raised", "save_raised"}

\* a wait that ends with the first task that ends
FirstCompleted(tk) == \E t \in IndexTypes : tk[t] \in Ended

\* await asyncio.gather(...): both tasks have ended
GatherReturns(tk) == \A t \in IndexTypes : tk[t] \in Ended

\* a gather that raises the exception of a task
RaisesFirstException(tk) == \E t \in IndexTypes : tk[t] # "returned"

\* return_exceptions=True: the exceptions are results, gather raises nothing
GatherRaises(tk) == FALSE

\* results[k] if not isinstance(results[k], Exception) else 0
CountOf(tk, t) == IF tk[t] = "returned" THEN Len(stocks_of[t]) ELSE 0

NoCounts == [t \in IndexTypes |-> None]

\* a caller starts its pass: fetch_all_index_stocks is called
RefreshBegin(c) ==
    /\ wpc = "idle"
    /\ caller' = c
    /\ wpc' = "init_db"
    /\ UNCHANGED <<task, tries, stocks_of, counts, codes_read, members0>>
    /\ UNCHANGED <<index_stocks, notRefresh>>

\* await init_db() returns: the two fetch-and-saves are started together
InitDbOk ==
    /\ wpc = "init_db"
    /\ wpc' = "gather"
    /\ task' = [t \in IndexTypes |-> "fetch"]
    /\ UNCHANGED <<caller, tries, stocks_of, counts, codes_read, members0>>
    /\ UNCHANGED <<index_stocks, notRefresh>>

\* await init_db() raises: fetch_all_index_stocks raises it, and the caller's
\* except takes it; the bar fetch is not called
InitDbRaises ==
    /\ wpc = "init_db"
    /\ wpc' = "raised"
    /\ UNCHANGED <<caller, task, tries, stocks_of, counts, codes_read, members0>>
    /\ UNCHANGED <<index_stocks, notRefresh>>

\* an attempt of the fetch of an index returns its member list
IndexFetchOk(t, stocks) ==
    /\ wpc = "gather"
    /\ task[t] = "fetch"
    /\ stocks_of' = [stocks_of EXCEPT ![t] = stocks]
    /\ task' = [task EXCEPT ![t] = "save"]
    /\ UNCHANGED <<caller, wpc, tries, counts, codes_read, members0>>
    /\ UNCHANGED <<index_stocks, notRefresh>>

\* an attempt of the fetch of an index raises: retry_on_failure tries again,
\* or raises after the last attempt and fetch_and_save raises
IndexFetchFails(t) ==
    /\ wpc = "gather"
    /\ task[t] = "fetch"
    /\ tries' = [tries EXCEPT ![t] = @ + 1]
    /\ task' = IF MoreAttempts(tries[t], MAX_RETRIES) THEN task
               ELSE [task EXCEPT ![t] = "fetch_raised"]
    /\ UNCHANGED <<caller, wpc, stocks_of, counts, codes_read, members0>>
    /\ UNCHANGED <<index_stocks, notRefresh>>

\* await save_index_stocks(tag, stocks, fields) commits and returns
IndexSaveOk(t) ==
    /\ wpc = "gather"
    /\ task[t] = "save"
    /\ index_stocks' = SavedIndexStocks(index_stocks, t, stocks_of[t])
    /\ task' = [task EXCEPT ![t] = "returned"]
    /\ UNCHANGED <<caller, wpc, tries, stocks_of, counts, codes_read, members0>>
    /\ UNCHANGED notRefresh

\* await save_index_stocks raises: nothing of it is committed
IndexSaveRaises(t) ==
    /\ wpc = "gather"
    /\ task[t] = "save"
    /\ task' = [task EXCEPT ![t] = "save_raised"]
    /\ UNCHANGED <<caller, wpc, tries, stocks_of, counts, codes_read, members0>>
    /\ UNCHANGED <<index_stocks, notRefresh>>

\* the gather is over: fetch_all_index_stocks returns the two counts, or
\* raises what the gather raised
GatherDone ==
    /\ wpc = "gather"
    /\ GatherReturns(task)
    /\ IF GatherRaises(task)
       THEN wpc' = "raised" /\ UNCHANGED counts
       ELSE /\ wpc' = "members"
            /\ counts' = [t \in IndexTypes |-> CountOf(task, t)]
    /\ UNCHANGED <<caller, task, tries, stocks_of, codes_read, members0>>
    /\ UNCHANGED <<index_stocks, notRefresh>>

\* the bar fetch of the caller starts: codes = await get_all_stock_codes()
BarFetchBegins ==
    /\ wpc = "members"
    /\ codes_read' = get_all_stock_codes(index_stocks)
    /\ wpc' = "bars"
    /\ UNCHANGED <<caller, task, tries, stocks_of, counts, members0>>
    /\ UNCHANGED <<index_stocks, notRefresh>>

RefreshInitWith(pc) ==
    /\ caller = None
    /\ wpc = pc
    /\ task = [t \in IndexTypes |-> "idle"]
    /\ tries = [t \in IndexTypes |-> 0]
    /\ stocks_of = [t \in IndexTypes |-> <<>>]
    /\ counts = NoCounts
    /\ codes_read = {}
    /\ members0 = index_stocks

RefreshIdle == RefreshInitWith("off")

\* -------------------------------------------------------- specifications

\* a frame with column close, not yet given to the detector
SmaInitWith(series, short, long) ==
    /\ close = series
    /\ short_window = short
    /\ long_window = long
    /\ crossover = <<>>
    /\ gpc = "idle"

SmaIdle == SmaInitWith(<<>>, SMA_SHORT, SMA_LONG)

\* the process before lifespan runs, at clock t
SchedInitWith(t) ==
    /\ lpc = "startup"
    /\ ipc = "new"
    /\ dpc = "new"
    /\ must_cancel = [t2 \in Tasks |-> FALSE]
    /\ clock = t
    /\ now = t
    /\ target_time = t
    /\ wait_seconds = 0
    /\ cancelAt = None
    /\ aborted = {}
    /\ startedAfter = FALSE
    /\ failures = 0
    /\ ifailed = FALSE

SchedIdle == SchedInitWith(0)

\* no operation on the provider has been called
SessInit ==
    /\ sop = None
    /\ spc = "idle"
    /\ sleft = 0
    /\ slogins = 0
    /\ slogouts = 0

\* a detection run not yet called
DetInitWith(v, list, frames, n) ==
    /\ variant = v
    /\ stock_list = list
    /\ frame_of = frames
    /\ detect_days = n
    /\ di = 0
    /\ golden_cross_df = <<>>
    /\ xpc = "idle"

DetIdle == DetInitWith("sma", <<>>, [c \in Codes |-> <<>>], 1)

\* a request that has reached its handler
Request(k, a, b, h, e) ==
    [kind |-> k, sma1 |-> a, sma2 |-> b, hold_days |-> h, entries |-> e]
BtInitWith(r, f) ==
    /\ request = r
    /\ feed = f
    /\ hpc = "called"
    /\ io = <<>>
    /\ response = NoResponse
    /\ content = <<>>

\* no request
BtIdle ==
    /\ request = Request(None, NoArg, NoArg, NoArg, {})
    /\ feed = NoFrame
    /\ hpc = "idle"
    /\ io = <<>>
    /\ response = NoResponse
    /\ content = <<>>

SingleInitWith(pc) ==
    /\ df = "unset"
    /\ count = 0
    /\ escaped = None
    /\ fspc = pc

SingleIdle == SingleInitWith("idle")

QueryInitWith(c, a, b, pc) ==
    /\ query = [code |-> c, start_date |-> a, end_date |-> b]
    /\ answer = <<>>
    /\ qpc = pc

QueryIdle == QueryInitWith(NoCode, NoDate, NoDate, "idle")

\* ChatStateMachine(), and the welcome message sent
ChatInit ==
    /\ state = INIT
    /\ api_key = None
    /\ device_id = None
    /\ device_histories = [d \in {} |-> <<>>]
    /\ agent_inputs = <<>>
    /\ sent = ServerResponse("welcome", "success")
    /\ last_message = None
    /\ received = 0
    /\ handshake = <<>>

\* the search and agent services at rest
\* the classifier, the state machine and the task map at rest
TailIdle == IntentIdle /\ RefreshIdle /\ MachineIdle /\ TasksIdle

LateIdle ==
    DetIdle /\ BtIdle /\ SingleIdle /\ QueryIdle /\ ChatInit /\ AgentIdle /\ TailIdle

RestInit == SessInit /\ SchedIdle /\ SmaIdle /\ LateIdle

StoreInitWith(members, bars) ==
    /\ index_stocks = members
    /\ stock_daily_data = bars
    /\ lock = None
    /\ cpc = [p \in Procs |-> "idle"]
    /\ job = [p \in Procs |-> NoJob]
    /\ work = [p \in Procs |-> NoTables]
    /\ snapshot = NoTables
    /\ latest = bars
    /\ lastReplace = [t \in IndexTypes |-> [done |-> FALSE, codes |-> {}]]
    /\ lastCommit = None
    /\ overlap = FALSE
    /\ shrunk = FALSE
    /\ obs = NoObs

\* the tables after init_db on a new database file
StoreInit == StoreInitWith({}, {})

RetryInitWith(n, d, pc) ==
    /\ max_retries = n
    /\ delay = d
    /\ attempt = 0
    /\ rpc = pc
    /\ last_exception = None
    /\ result = None
    /\ raised = None
    /\ calls = 0
    /\ sleeps = <<>>
    /\ errors = <<>>

\* no call of retry_on_failure under way
RetryIdle == RetryInitWith(MAX_RETRIES, RETRY_DELAY, "idle")

BatchInit ==
    /\ bpc = "idle"
    /\ run = None
    /\ codes = <<>>
    /\ idx = 1
    /\ try = 0
    /\ all_data = <<>>
    /\ fpos = 1
    /\ loggedIn = FALSE
    /\ opc = "idle"
    /\ logins = 0
    /\ logouts = 0
    /\ queried = {}
    /\ skipped = {}
    /\ inside = TRUE
    /\ closedQuery = FALSE
    /\ bars0 = stock_daily_data

\* one caller issues store calls of both kinds, one after the other, while
\* readers query on their own connections
StoreSpecInit == StoreInit /\ RetryIdle /\ BatchInit /\ RestInit

StoreNext ==
    \/ \E c \in StoreCodes, d \in BarBatches : Upsert("sched", c, d)
    \/ \E t \in IndexTypes, s \in StockLists : Replace("sched", t, s)
    \/ Execute("sched")
    \/ Fail("sched")
    \/ Commit("sched")
    \/ \E c \in StoreCodes : ReadBars(c)
    \/ \E t \in IndexTypes : ReadIndex(t)

SpecStore == StoreSpecInit /\ [][StoreNext]_vars

\* both callers upsert bars at the same time, each on its own connection
WritersNext ==
    \/ \E p \in Procs, c \in StoreCodes, d \in BarBatches : Upsert(p, c, d)
    \/ \E p \in Procs : Execute(p)
    \/ \E p \in Procs : Fail(p)
    \/ \E p \in Procs : Commit(p)

SpecWriters == StoreSpecInit /\ [][WritersNext]_vars

\* retry_on_failure called with any max_retries and delay, on a func that
\* returns or raises as it likes
RetrySpecInit ==
    /\ StoreInit
    /\ \E n \in 0..MaxAttempts, d \in Delays : RetryInitWith(n, d, "call")
    /\ BatchInit
    /\ RestInit

SpecRetry == RetrySpecInit /\ [][RetryNext]_vars

\* the member rows and the bars the store may hold when a bulk run begins
InitialMembers ==
    {{},
     {IndexRow("hs300", Stock("sh.600000", "a"))},
     {IndexRow("hs300", Stock("sh.600000", "a")), IndexRow("zz500", Stock("sh.600000", "a"))},
     {IndexRow("hs300", Stock("sh.600000", "a")), IndexRow("zz500", Stock("sz.000001", "a"))}}
InitialBars == {{}, {BarRow("sh.600000", Bar(1, 1))}}

BatchSpecInit ==
    /\ \E m \in InitialMembers, b \in InitialBars : StoreInitWith(m, b)
    /\ RetryIdle
    /\ BatchInit
    /\ RestInit

\* one bulk run, from either call site, beside on-demand requests for bars
BatchNext ==
    \/ \E k \in {"fetch_all_stocks_daily_data", "refresh_daily_data"} : Start(k)
    \/ Login
    \/ \E rows \in FetchResults : QueryOk(rows)
    \/ QueryError
    \/ Logout
    \/ FlushOne
    \/ Execute("sched")
    \/ Fail("sched")
    \/ Commit("sched")
    \/ Saved
    \/ SaveRaised
    \/ Finish
    \/ OnDemandLogin
    \/ OnDemandQuery
    \/ OnDemandLogout

SpecBatch == BatchSpecInit /\ [][BatchNext]_vars

\* one caller replaces the members of either index, again and again, over
\* any stored members and bars
ReplaceSpecInit ==
    /\ \E m \in InitialMembers, b \in InitialBars : StoreInitWith(m, b)
    /\ RetryIdle /\ BatchInit /\ RestInit

ReplaceNext ==
    \/ \E t \in IndexTypes, st \in StockLists : Replace("sched", t, st)
    \/ Execute("sched")
    \/ Fail("sched")
    \/ Commit("sched")

SpecReplace == ReplaceSpecInit /\ [][ReplaceNext]_vars

\* the process starts at any time of day 0; lifespan, its two tasks and the
\* shutdown
SchedSpecInit ==
    /\ StoreInit /\ RetryIdle /\ BatchInit /\ SessInit /\ SmaIdle /\ LateIdle
    /\ \E t \in 0..(TicksPerDay - 1) : SchedInitWith(t)

SchedNext ==
    \/ Startup
    \/ InitialStarts
    \/ InitialStepOk
    \/ InitialStepRaises
    \/ DailyStarts
    \/ \E late \in 0..1 : Trigger(late)
    \/ \E took \in 0..1 : MembersDone(took)
    \/ \E took \in 0..1 : RefreshDone(took)
    \/ \E took \in 0..1 : RunRaises(took)
    \/ CooldownDone
    \/ Shutdown
    \/ InitialCancelled
    \/ DailyCancelled
    \/ LifespanEnds

SpecSched == SchedSpecInit /\ [][SchedNext]_vars

\* closing prices
Prices == {8, 9, 10}
\* the series of the acceptance example, for the windows 2 and 3
ExampleSeries == <<10, 10, 10, 9, 8, 12, 13, 14>>
\* the frames given to the detector: every series of up to MaxRows prices and
\* the example, for the windows 2 and 3; every series of SMA_LONG + 1 rows of
\* two prices, for the windows 5 and 10
ShortFrames ==
    UNION {[1..n -> Prices] : n \in 0..MaxRows} \cup {ExampleSeries}
LongFrames == [1..(SMA_LONG + 1) -> {9, 10}]

SmaSpecInit ==
    /\ StoreInit /\ RetryIdle /\ BatchInit /\ SessInit /\ SchedIdle /\ LateIdle
    /\ \/ \E c \in ShortFrames : SmaInitWith(c, 2, 3)
       \/ \E c \in LongFrames : SmaInitWith(c, SMA_SHORT, SMA_LONG)

SmaNext == Detect

SpecSma == SmaSpecInit /\ [][SmaNext]_vars

\* the rows the store holds for the two codes of a detection run: for the
\* moving averages every series of SMA_LONG + 1 and SMA_LONG + 2 rows of two
\* prices for the first code, for MACD every series of up to MaxMacdRows rows
SmaRunFrames ==
    [1..(SMA_LONG + 1) -> {9, 10}] \cup [1..(SMA_LONG + 2) -> {9, 10}]
    \cup {<<>>, <<9, 10>>}
SmaSecondFrames == {<<>>, <<9, 9, 9, 9, 9, 9, 9, 9, 9, 9, 10>>}
MacdRunFrames == UNION {[1..n -> Prices] : n \in 0..MaxMacdRows}
\* the lists of a detection run: two members, the second may have no code
RunLists ==
    {<<Stock("sh.600000", "a"), Stock("sz.000001", "b")>>,
     <<Stock("sh.600000", "a"), Stock(NoCode, "b")>>}

DetSpecInit ==
    /\ StoreInit /\ RetryIdle /\ BatchInit /\ SessInit /\ SchedIdle /\ SmaIdle
    /\ BtIdle /\ SingleIdle /\ QueryIdle /\ ChatInit /\ AgentIdle /\ TailIdle
    /\ \E list \in RunLists, n \in 1..MaxDetectDays :
          \/ \E f \in SmaRunFrames, g \in SmaSecondFrames :
                DetInitWith("sma", list,
                            [c \in Codes |-> IF c = "sh.600000" THEN f ELSE g], n)
          \/ \E f \in MacdRunFrames, g \in MacdRunFrames :
                DetInitWith("macd", list,
                            [c \in Codes |-> IF c = "sh.600000" THEN f ELSE g], n)

DetNext ==
    \/ DetectBegin
    \/ DetectSkip
    \/ DetectEmit
    \/ DetectIndexError
    \/ DetectReturn

SpecDet == DetSpecInit /\ [][DetNext]_vars

\* the requests and the rows they meet: a backtest with windows given or
\* not, valid or not, on every series of SMA_LONG + 1 rows of two prices, on
\* short and empty ones and on a provider that fails; the indicators on
\* series around INDICATOR_ROWS rows; the backtest loop of do_search; a
\* simulation with its entry signals on short series and on the example
BacktestRequests ==
    {Request("backtest", a, b, h, {}) :
        a \in {NoArg, 2, 3}, b \in {NoArg, 3, SMA_LONG + 2}, h \in {NoArg, 1}}
\* a series whose averages cross on row 11, one row before a gain
GainSeries == <<10, 10, 10, 10, 10, 8, 8, 9, 11, 11, 10, 11>>
BacktestFeeds ==
    {Raises, NoFrame, Rows(<<>>), Rows(<<9, 10>>), Rows(GainSeries)}
    \cup {Rows(c) : c \in [1..(SMA_LONG + 1) -> {9, 10}]}
IndicatorFeeds ==
    {Rows([t \in 1..n |-> 10]) :
        n \in {0, MIN_ROWS, INDICATOR_ROWS - 1, INDICATOR_ROWS, INDICATOR_ROWS + 1}}
SearchFeeds ==
    {Rows(<<>>), Rows(<<9, 10>>), Rows(GainSeries)}
    \cup {Rows(c) : c \in [1..(SMA_LONG + 1) -> {9, 10}]}
SimulateRequests ==
    {Request("simulate", NoArg, NoArg, h, e) : h \in {1, 2}, e \in SUBSET (1..MaxEntries)}
SimulateFeeds ==
    {Rows(c) : c \in ShortFrames} \cup {Rows(<<100, 105>>), Rows(<<100, 105, 95>>)}

BtSpecInit ==
    /\ StoreInit /\ RetryIdle /\ BatchInit /\ SessInit /\ SchedIdle /\ SmaIdle
    /\ DetIdle /\ SingleIdle /\ QueryIdle /\ ChatInit /\ AgentIdle /\ TailIdle
    /\ \/ \E r \in BacktestRequests, f \in BacktestFeeds : BtInitWith(r, f)
       \/ \E f \in IndicatorFeeds :
             BtInitWith(Request("indicators", NoArg, NoArg, NoArg, {}), f)
       \/ \E f \in SearchFeeds :
             BtInitWith(Request("search", NoArg, NoArg, NoArg, {}), f)
       \/ \E r \in SimulateRequests, f \in SimulateFeeds : BtInitWith(r, f)

BtNext ==
    \/ BtFetch
    \/ BtRespond
    \/ GetIndicators
    \/ SearchBacktest
    \/ Simulate

SpecBt == BtSpecInit /\ [][BtNext]_vars

\* fetch_and_save_stock_data on one instrument: the retry loop of
\* fetch_stock_daily_data with any max_retries of at least one attempt, then
\* the two returns
SingleSpecInit ==
    /\ StoreInit
    /\ \E n \in 1..MaxAttempts, d \in Delays : RetryInitWith(n, d, "call")
    /\ BatchInit
    /\ SessInit /\ SchedIdle /\ SmaIdle
    /\ DetIdle /\ BtIdle /\ QueryIdle /\ ChatInit /\ AgentIdle /\ TailIdle
    /\ SingleInitWith("fetch")

SingleNext ==
    \/ \E v \in FetchValues : Succeed(v)
    \/ \E e \in Errors : FailAttempt(e)
    \/ Wake
    \/ FetchReturns
    \/ \E ok \in BOOLEAN : SaveReturns(ok)

SpecSingle == SingleSpecInit /\ [][SingleNext]_vars

\* the tables of bars the upserts can leave: for every code and date no row
\* or one row, with one of the quotes
BarKeys == Codes \X Dates
BarTables ==
    {{BarRow(k[1], Bar(k[2], f[k])) : k \in {j \in BarKeys : f[j] # 0}} :
        f \in [BarKeys -> {0} \cup Vals]}

\* a query of one code with each bound given or not, on any such table
QuerySpecInit ==
    /\ \E t \in BarTables : StoreInitWith({}, t)
    /\ RetryIdle
    /\ BatchInit
    /\ SessInit /\ SchedIdle /\ SmaIdle
    /\ DetIdle /\ BtIdle /\ SingleIdle /\ ChatInit /\ AgentIdle /\ TailIdle
    /\ \E c \in Codes, a \in {NoDate} \cup Dates, b \in {NoDate} \cup Dates :
          QueryInitWith(c, a, b, "called")

QueryNext == QueryBars

SpecQuery == QuerySpecInit /\ [][QueryNext]_vars

\* the state before the classifier, the state machine and the task map, at
\* rest
HeadIdle ==
    /\ StoreInit /\ RetryIdle /\ BatchInit
    /\ SessInit /\ SchedIdle /\ SmaIdle
    /\ DetIdle /\ BtIdle /\ SingleIdle /\ QueryIdle /\ ChatInit /\ AgentIdle

\* one pass of any caller, over any stored members
RefreshSpecInit ==
    /\ \E m \in InitialMembers : StoreInitWith(m, {})
    /\ RetryIdle /\ BatchInit
    /\ SessInit /\ SchedIdle /\ SmaIdle
    /\ DetIdle /\ BtIdle /\ SingleIdle /\ QueryIdle /\ ChatInit /\ AgentIdle
    /\ IntentIdle /\ MachineIdle /\ TasksIdle
    /\ RefreshInitWith("idle")

RefreshNext ==
    \/ \E c \in Callers : RefreshBegin(c)
    \/ InitDbOk
    \/ InitDbRaises
    \/ \E t \in IndexTypes, stocks \in StockLists : IndexFetchOk(t, stocks)
    \/ \E t \in IndexTypes : IndexFetchFails(t)
    \/ \E t \in IndexTypes : IndexSaveOk(t)
    \/ \E t \in IndexTypes : IndexSaveRaises(t)
    \/ GatherDone
    \/ BarFetchBegins

SpecRefresh == RefreshSpecInit /\ [][RefreshNext]_vars

\* a new state machine, called up to MaxCalls times in any order
MachineSpecInit == StoreInit /\ RetryIdle /\ BatchInit /\ RestInit

MachineNext ==
    \/ \E key \in KeyArgs : Authenticate(key)
    \/ \E dev \in DeviceArgs : RegisterDevice(dev)
    \/ StartChatting
    \/ Reset

SpecMachine == MachineSpecInit /\ [][MachineNext]_vars

\* the empty task map of either module; the event loop runs every task it
\* was given to its end
TasksSpecInit ==
    /\ HeadIdle
    /\ IntentIdle /\ RefreshIdle /\ MachineIdle
    /\ \E svc \in Services : TasksInitWith(svc)

TasksNext ==
    \/ \E prompt \in Prompts : StartTask(prompt)
    \/ \E task_id \in TaskIds : TaskReturns(task_id)
    \/ \E task_id \in TaskIds, e \in TaskErrors : TaskRaises(task_id, e)
    \/ \E task_id \in TaskIds : GetTaskResult(task_id)

SpecTasks ==
    /\ TasksSpecInit
    /\ [][TasksNext]_vars
    /\ \A task_id \in TaskIds : WF_vars(TaskEnds(task_id))

\* one call of the rule-based classifier on any input
IntentSpecInit ==
    /\ HeadIdle
    /\ RefreshIdle /\ MachineIdle /\ TasksIdle
    /\ \E txt \in Inputs : IntentInitWith("start", txt)

IntentNext == RuleBasedClassify

SpecIntent == IntentSpecInit /\ [][IntentNext]_vars

\* one call of AgentService.process
AgentSpecInit ==
    /\ StoreInit /\ RetryIdle /\ BatchInit
    /\ SessInit /\ SchedIdle /\ SmaIdle
    /\ DetIdle /\ BtIdle /\ SingleIdle /\ QueryIdle /\ ChatInit /\ TailIdle
    /\ \E req \in AgentRequests, ok \in BOOLEAN : AgentInitWith("start", req, ok)

AgentNext ==
    \/ \E i \in IntentTypes : AgentClassify(i)
    \/ \E e \in Exceptions : AgentClassifyRaises(e)
    \/ AgentExecute

SpecAgent == AgentSpecInit /\ [][AgentNext]_vars

\* one session: the client sends up to MaxMessages messages of any type in
\* any order
ChatSpecInit == StoreInit /\ RetryIdle /\ BatchInit /\ RestInit

ChatNext ==
    \/ \E key \in ApiKeys : HandleAuth(key)
    \/ \E dev \in DeviceIds : HandleRegister(dev)
    \/ \E text \in Contents : OnMessage(text)
    \/ \E saved \in BOOLEAN : OnAudio(saved)
    \/ OnOther

SpecChat == ChatSpecInit /\ [][ChatNext]_vars

\* the operations on the provider, one after the other
SessSpecInit == StoreInit /\ RetryIdle /\ BatchInit /\ RestInit

SessNext ==
    \/ \E op \in Scoped \cup Bare, n \in 1..MaxCodes : OpBegin(op, n)
    \/ OpLogin
    \/ OpQueryOk
    \/ OpQueryErrorCode
    \/ OpQueryRaises
    \/ OpRowsRaise
    \/ OpRowsOk

SpecSess == SessSpecInit /\ [][SessNext]_vars

\* ------------------------------------------------------------- claims

\* C1: for every max_retries >= 1, a func that raises on every invocation is
\* invoked exactly max_retries times, never more, before retry_on_failure
\* raises; it is never invoked more often than max_retries.
C1_ExactlyMaxAttempts ==
    /\ calls <= max_retries
    /\ (max_retries >= 1 /\ rpc = "raised") => (calls = max_retries /\ result = None)
    /\ (max_retries >= 1 /\ result = None /\ calls < max_retries) => rpc # "raised"

\* three attempts, all failed, and the failure has propagated
C1_Witness ==
    max_retries = MAX_RETRIES /\ rpc = "raised" /\ calls = MAX_RETRIES /\ raised \in Errors


BarsOf(tbl, code, date) == {r \in tbl : r.code = code /\ r.date = date}

MembersOf(tbl, tag) == {r \in tbl : r.index_type = tag}

\* the dates of a batch of bars
DatesOf(rows) == {rows[k].date : k \in 1..Len(rows)}

\* C2: after any sequence of upserts, by either caller, the store holds at
\* most one row per (code, date), and that row is the one the most recent
\* committed upsert of the key wrote.
C2_UpsertIdempotent ==
    \A c \in Codes, d \in Dates :
        /\ Cardinality(BarsOf(stock_daily_data, c, d)) <= 1
        /\ BarsOf(stock_daily_data, c, d) = BarsOf(latest, c, d)

\* both callers have upserted the same key with different quotes, one after
\* the other
C2_Witness ==
    /\ cpc["sched"] = "ok" /\ cpc["api"] = "ok"
    /\ \E d \in Dates :
          /\ Bar(d, 1) \in {job["sched"].rows[k] : k \in 1..Len(job["sched"].rows)}
          /\ Bar(d, 2) \in {job["api"].rows[k] : k \in 1..Len(job["api"].rows)}
          /\ lastCommit = "api"
          /\ BarsOf(stock_daily_data, job["api"].key, d) = {BarRow(job["api"].key, Bar(d, 2))}

\* C3: once a replace of an index has committed, the codes stored for the
\* index are exactly the codes of that replace's list, with one row per
\* (index, code): nothing of an earlier replace is left.
C3_FullReplace ==
    \A t \in IndexTypes :
        lastReplace[t].done =>
            /\ {r.code : r \in MembersOf(index_stocks, t)} = lastReplace[t].codes
            /\ \A c \in Codes :
                  Cardinality({r \in MembersOf(index_stocks, t) : r.code = c}) <= 1

\* a committed replace has just dropped a member that an earlier one stored
C3_Witness ==
    /\ shrunk
    /\ cpc["sched"] = "ok" /\ job["sched"].kind = "index"
    /\ {r.code : r \in MembersOf(index_stocks, job["sched"].key)}
          = CodesOf(job["sched"].rows)
    /\ CodesOf(job["sched"].rows) # {}

\* C7: when a store call fails, at any statement or at its commit, the
\* committed tables are what they were before the call's transaction began;
\* after a failed replace the index's earlier members are all still stored.
C7_AllOrNothing ==
    [][\A p \in Procs :
          (cpc[p] = "exec" /\ cpc'[p] = "err") =>
              /\ index_stocks' = Before.idx
              /\ stock_daily_data' = Before.bars
              /\ (job[p].kind = "index" =>
                    get_index_stocks(index_stocks', job[p].key)
                        = get_index_stocks(Before.idx, job[p].key))]_vars

\* a replace has failed after its DELETE and an insert, and the members the
\* index had before are still stored
C7_Witness ==
    /\ cpc["sched"] = "err" /\ job["sched"].kind = "index" /\ job["sched"].i >= 2
    /\ lastReplace[job["sched"].key].codes # {}
    /\ {r.code : r \in MembersOf(index_stocks, job["sched"].key)}
          = lastReplace[job["sched"].key].codes
    /\ CodesOf(job["sched"].rows) # lastReplace[job["sched"].key].codes

\* C8: a read that runs while a store call's transaction is open returns what
\* the tables held before that transaction began: no row of the batch, and
\* for a replace the index's earlier members, all of them.
C8_ReaderIsolation ==
    /\ obs.kind = "bars" =>
          obs.bars = get_stock_daily_data_from_db(Before.bars, obs.key, NoDate, NoDate)
    /\ obs.kind = "index" =>
          obs.members = get_index_stocks(Before.idx, obs.key)

\* a read of an index has run after the DELETE of an open replace of it: the
\* replace's transaction holds other members than the read returned
C8_Witness ==
    /\ obs.kind = "index" /\ lock = "sched"
    /\ job["sched"].kind = "index" /\ job["sched"].key = obs.key
    /\ job["sched"].i >= 1
    /\ obs.members # {}
    /\ obs.members # get_index_stocks(work["sched"].idx, obs.key)

\* C9: when both callers have upserted bars of one code at the same time and
\* both have committed, each date that both wrote has exactly one row, and
\* the row is whole the record of the caller that committed last.
C9_LastWriterWins ==
    (/\ cpc["sched"] = "ok" /\ cpc["api"] = "ok"
     /\ job["sched"].kind = "bars" /\ job["api"].kind = "bars"
     /\ job["sched"].key = job["api"].key) =>
        \A d \in DatesOf(job["sched"].rows) \cap DatesOf(job["api"].rows) :
            /\ Cardinality(BarsOf(stock_daily_data, job[lastCommit].key, d)) = 1
            /\ BarsOf(stock_daily_data, job[lastCommit].key, d)
                  \subseteq LatestOf(job[lastCommit].key, job[lastCommit].rows)

\* the two calls ran at the same time, wrote one date with different quotes,
\* and both committed
C9_Witness ==
    /\ overlap
    /\ cpc["sched"] = "ok" /\ cpc["api"] = "ok"
    /\ \E d \in Dates :
          /\ Bar(d, 1) \in {job["sched"].rows[k] : k \in 1..Len(job["sched"].rows)}
          /\ Bar(d, 2) \in {job["api"].rows[k] : k \in 1..Len(job["api"].rows)}
          /\ lastCommit = "sched"
          /\ BarsOf(stock_daily_data, job["sched"].key, d)
                = {BarRow(job["sched"].key, Bar(d, 1))}

\* the codes of the list the run works on
CodesOfRun == {codes[k] : k \in 1..Len(codes)}

\* the fetch loop of the run is over
FetchOver == bpc \in {"logout", "flush", "saving", "done", "raised"}

\* the run has ended, by a return or by a raise
RunOver == bpc \in {"done", "raised"}

\* the store holds, for code c, what it held when the run began
Untouched(c) ==
    {r \in stock_daily_data : r.code = c} = {r \in bars0 : r.code = c}

\* the store holds, for code c, every bar the run fetched for it, over what
\* it held before on other dates
Written(c) ==
    {r \in stock_daily_data : r.code = c}
        = {r \in bars0 : r.code = c /\ r.date \notin DatesOf(all_data[c])}
              \cup LatestOf(c, all_data[c])

\* C4 as stated: whatever the list of codes, a run performs exactly one login
\* and exactly one logout, and every query of it lies between them.
C4_OneSessionAnyList ==
    RunOver => (logins = 1 /\ logouts = 1 /\ inside)

\* C4, amended: a run over a list of codes that is not empty performs exactly
\* one login and exactly one logout, whatever fails and is retried, and every
\* query of it lies between them; a run that finds no code returns without a
\* login or a logout.
C4_OneSessionPerBatch ==
    /\ inside
    /\ logouts <= logins /\ logins <= 1
    /\ (queried # {} => logins = 1)
    /\ (bpc \in {"flush", "saving", "done", "raised"} =>
          IF codes = <<>> THEN logins = 0 /\ logouts = 0
          ELSE logins = 1 /\ logouts = 1)

\* a run over two codes has ended, one of them given up after its retries
C4_Witness ==
    /\ bpc = "done" /\ Len(codes) = 2 /\ skipped # {} /\ queried = CodesOfRun
    /\ logins = 1 /\ logouts = 1

\* C5: an instrument whose fetch fails on all its attempts does not end the
\* batch: every instrument of the list is still queried, and when the run
\* returns every instrument whose fetch brought bars has them in the store.
C5_FailureIsolation ==
    /\ FetchOver => queried = CodesOfRun
    /\ skipped \cap DOMAIN all_data = {}
    /\ bpc = "done" => \A c \in DOMAIN all_data : Written(c)

\* the first instrument was given up, the second was fetched and is stored
C5_Witness ==
    /\ bpc = "done" /\ Len(codes) = 2
    /\ codes[1] \in skipped
    /\ codes[2] \in DOMAIN all_data /\ Written(codes[2]) /\ ~Untouched(codes[2])

\* C6 as stated: at the end of every run, also one in which a store write
\* failed, every instrument either has all its fetched bars stored or was
\* skipped and has none of them stored; none that was fetched is unwritten.
C6_NoPartialOutcomeAnyRun ==
    RunOver => \A c \in CodesOfRun :
        IF c \in DOMAIN all_data THEN Written(c) ELSE Untouched(c)

\* C6, amended: no instrument is ever partly written: the store holds for it
\* what it held before the run or all bars of its fetch; a skipped
\* instrument stays as it was; when the run returns every fetched instrument
\* is written; when a store write fails the run raises, and that instrument
\* and the ones after it in the flush stay unwritten.
C6_NoPartialOutcome ==
    /\ \A c \in Codes :
          IF c \in DOMAIN all_data THEN Untouched(c) \/ Written(c) ELSE Untouched(c)
    /\ bpc = "done" => \A c \in DOMAIN all_data : Written(c)
    /\ bpc = "raised" =>
          /\ \A k \in 1..(fpos - 1) : Written(FlushOrder[k])
          /\ \A k \in fpos..Len(FlushOrder) : Untouched(FlushOrder[k])

\* the write of the first instrument committed; the write of the second
\* failed after one of its two statements, and the run has raised
C6_Witness ==
    /\ bpc = "raised" /\ Len(FlushOrder) = 2 /\ fpos = 2
    /\ job["sched"].i = 2 /\ Len(job["sched"].rows) = 2
    /\ Written(FlushOrder[1]) /\ ~Untouched(FlushOrder[1])
    /\ Untouched(FlushOrder[2]) /\ ~Written(FlushOrder[2])

C19_ReraisesLastError ==
    (rpc = "raised" /\ max_retries >= 1) =>
        /\ Len(errors) = max_retries
        /\ raised = errors[Len(errors)]

\* the attempts failed with different errors and the last one's is raised
C19_Witness ==
    /\ rpc = "raised" /\ Len(errors) = MAX_RETRIES
    /\ errors[1] # errors[Len(errors)]
    /\ raised = errors[Len(errors)]

\* C11: every operation that logs in logs out before it returns or raises:
\* when an operation has ended, on any path, there have been as many logouts
\* as logins.
C11_SessionClosedOnEveryPath ==
    spc \in {"returned", "raised"} => slogouts = slogins

\* C12: when cancel() is called while daily_task sleeps until the trigger,
\* the task takes no step but its exit: it ends by returning, no exception
\* leaves it, and it begins no membership fetch and no bar fetch afterwards.
C12_CancelWhileWaiting ==
    cancelAt = "sleep" =>
        /\ dpc \in {"sleep", "returned"}
        /\ (~must_cancel["daily_task"] => dpc = "returned")
        /\ ~startedAfter
        /\ "daily_task" \notin aborted

\* the loop was cancelled in its second wait for the trigger, after a whole
\* refresh, and has returned
C12_Witness ==
    /\ cancelAt = "sleep" /\ dpc = "returned" /\ lpc = "stopped"
    /\ clock >= AtTriggerHour(0) /\ target_time > clock

\* C13: from whatever state daily_task is cancelled in (waiting for the
\* trigger, running a refresh, sleeping in the cool-down), it ends by
\* returning: CancelledError never leaves the task.
C13_CancelExitsWithoutRaising ==
    dpc \notin {"cancelled", "raised"}

\* C14: a fetch that is in flight when cancel() is called, in either task,
\* runs to its end: CancelledError is never thrown into a unit of work, and
\* the task stops before the next unit.
C14_InFlightFetchCompletes ==
    /\ aborted = {}
    /\ ~startedAfter

\* C15: every exception of a scheduled run sends the loop to its cool-down
\* sleep and from there to the next computed trigger; the task ends only
\* after cancel() was called, and a failed run leaves lifespan serving.
C15_LoopSurvivesFailures ==
    [][/\ (failures' # failures) =>
             (dpc \in {"members", "refresh"} /\ dpc' = "cooldown" /\ lpc' = lpc)
       /\ (dpc = "cooldown" /\ dpc' # dpc /\ ~must_cancel["daily_task"]) =>
             /\ dpc' = "sleep"
             /\ clock' = clock + CoolDown
             /\ now' = clock'
             /\ target_time' > now'
       /\ (dpc' # dpc /\ dpc' \in {"returned", "cancelled", "raised"}) =>
             must_cancel["daily_task"]]_vars

\* a scheduled run has raised, the cool-down is over, and the loop waits for
\* the next trigger while the process serves
C15_Witness ==
    /\ failures = 1 /\ dpc = "sleep" /\ lpc = "serving"
    /\ now > AtTriggerHour(0) /\ target_time = AtTriggerHour(0) + TicksPerDay

\* C16: an exception of the initial load is logged and ends initial_task by
\* a return; the tasks are created together, so startup completes and the
\* refresh loop runs whatever the initial load does.
C16_InitialLoadBestEffort ==
    /\ ipc # "raised"
    /\ ifailed => ipc = "returned"
    /\ (ipc = "new") = (lpc = "startup")
    /\ (dpc = "new") = (lpc = "startup")
    /\ (ifailed /\ lpc = "serving") => dpc \notin {"returned", "cancelled", "raised"}

\* the initial load has failed, the process serves and the refresh loop has
\* reached its first trigger
C16_Witness ==
    /\ ifailed /\ ipc = "returned" /\ lpc = "serving"
    /\ dpc = "members" /\ clock >= target_time

\* C17: the trigger computed from now is the nearest 20:00 strictly after
\* now: today's when now is before 20:00, tomorrow's otherwise; the wait is
\* greater than 0 and at most 24 hours.
C17_NextTrigger ==
    dpc \notin {"new", "created"} =>
        /\ target_time % TicksPerDay = TRIGGER_HOUR * TicksPerHour
        /\ target_time > now
        /\ target_time - now <= HoursPerDay * TicksPerHour
        /\ target_time \div TicksPerDay =
              IF now % TicksPerDay < TRIGGER_HOUR * TicksPerHour
              THEN now \div TicksPerDay ELSE (now \div TicksPerDay) + 1
        /\ wait_seconds = target_time - now
        /\ wait_seconds > 0

\* now is 20:00 sharp: the trigger is tomorrow's and the wait is 24 hours
C17_Witness ==
    /\ dpc = "sleep"
    /\ now % TicksPerDay = TRIGGER_HOUR * TicksPerHour
    /\ wait_seconds = HoursPerDay * TicksPerHour

\* the sum of the n closes that end at row t
RECURSIVE Closes(_, _)
Closes(t, n) == IF n = 0 THEN 0 ELSE close[t] + Closes(t - 1, n - 1)

\* short-MA(t) > long-MA(t), and short-MA(t) <= long-MA(t), as fractions
ShortAbove(t) ==
    Closes(t, short_window) * long_window > Closes(t, long_window) * short_window
ShortNotAbove(t) ==
    Closes(t, short_window) * long_window <= Closes(t, long_window) * short_window

C10_SessionNotClosedByOthers == ~closedQuery

\* the closing prices the store holds for entry i of stock_list, the rows of
\* it the run's detector flags, and the rows the run has emitted for it
SeriesOf(i) ==
    IF stock_list[i].code = NoCode THEN <<>> ELSE frame_of[stock_list[i].code]
FlaggedOf(i) ==
    LET column == IF variant = "sma" THEN detect_golden_cross(SeriesOf(i))
                  ELSE detect_macd_golden_cross(SeriesOf(i))
    IN  {t \in 1..Len(SeriesOf(i)) : column[t]}
EventsOf(i) ==
    {k \in 1..Len(golden_cross_df) : golden_cross_df[k].Code = stock_list[i].code}
LastFlaggedOf(i) == CHOOSE t \in FlaggedOf(i) : \A u \in FlaggedOf(i) : u <= t

\* C21: an instrument the run has been through is emitted if and only if it
\* has a flagged row and its most recent flagged row is among the last
\* detect_days rows of its series, whatever the length of the series (all
\* rows of a series shorter than detect_days are among them); the emitted
\* Last Cross Date is the date of that row.
C21_LookbackRowIndexed ==
    \A i \in 1..di :
        /\ EventsOf(i) # {} <=>
              /\ FlaggedOf(i) # {}
              /\ LastFlaggedOf(i) > Len(SeriesOf(i)) - detect_days
        /\ \A k \in EventsOf(i) :
              golden_cross_df[k].LastCrossDate = Frame(SeriesOf(i))[LastFlaggedOf(i)].date

\* the longer window of the run's detector
LongerWindow == IF variant = "sma" THEN SMA_LONG ELSE SLOWPERIOD

\* C22: an instrument whose series has fewer rows than the longer window of
\* the detector (10 for the moving averages, 26 for MACD) yields no event and
\* no error: the run goes on to the remaining instruments.
C22_InsufficientHistoryNoError ==
    \A i \in 1..di :
        Len(SeriesOf(i)) < LongerWindow =>
            /\ EventsOf(i) = {}
            /\ ~(xpc = "raised" /\ i = di)

\* C23: a backtest request whose short window is at or above its long window
\* performs no provider login, no provider query and no store access, and is
\* answered with the parameter error.
C23_ParameterErrorBeforeIO ==
    (request.kind = "backtest" /\ Sma1Of(request) >= Sma2Of(request)) =>
        /\ io = <<>>
        /\ hpc = "returned" => response.error = "parameter"

\* the rows the window of a request needs: INDICATOR_ROWS for the indicators,
\* the long window for a backtest
WindowNeeds ==
    IF request.kind = "indicators" THEN INDICATOR_ROWS ELSE Sma2Of(request)

\* C24: an indicator or backtest request with valid windows on a series that
\* has rows, but fewer than its window needs, is answered with a sufficiency
\* error that reports the rows needed and the rows there are, never with a
\* computed value.
C24_SufficiencyError ==
    (/\ hpc = "returned"
     /\ request.kind \in {"indicators", "backtest"}
     /\ Sma1Of(request) < Sma2Of(request)
     /\ feed.kind = "rows" /\ feed.rows # <<>>
     /\ Len(feed.rows) < WindowNeeds) =>
        /\ response.error = "sufficiency"
        /\ response.required > Len(feed.rows)
        /\ response.actual = Len(feed.rows)

\* the entry signals of a simulation that are rows of its series, and the
\* row the position entered at t is closed at
SignalRows == request.entries \cap (1..Len(feed.rows))
ClosedAt(t) ==
    IF t + HoldOf(request) <= Len(feed.rows) THEN t + HoldOf(request)
    ELSE Len(feed.rows)

\* C26: a simulation counts one trade for every entry signal of the series;
\* a trade enters at the close of its row and exits at the close hold_days
\* rows later, or at the last row when the series ends first: the result of
\* a single signal is that trade's profit, its ratio to the entry close and
\* whether it is a gain. For the closes [100, 105] entered at the first row
\* with hold_days = 1 the result is avgProfit = 5, avgProfitRatio = 0.05,
\* winProbability = 1.0, tradeCount = 1.
C26_TruncatedExit ==
    (hpc = "returned" /\ request.kind = "simulate") =>
        LET r == response.result
        IN  /\ r.insufficient <=> SignalRows = {}
            /\ SignalRows # {} => r.tradeCount = Cardinality(SignalRows)
            /\ \A t \in SignalRows :
                  SignalRows = {t} =>
                      LET gain == feed.rows[ClosedAt(t)] - feed.rows[t]
                      IN  /\ r.avgProfit.num = gain * r.avgProfit.den
                          /\ r.avgProfitRatio.num * feed.rows[t]
                                = gain * r.avgProfitRatio.den
                          /\ r.winProbability.num
                                = (IF gain > 0 THEN r.winProbability.den ELSE 0)
            /\ (feed.rows = <<100, 105>> /\ SignalRows = {1} /\ HoldOf(request) = 1) =>
                  /\ r.avgProfit.num = 5 * r.avgProfit.den
                  /\ r.avgProfitRatio.num * 100 = 5 * r.avgProfitRatio.den
                  /\ r.winProbability.num = r.winProbability.den
                  /\ r.tradeCount = 1

\* a signal on the last row of a three-row series is counted as a trade that
\* exits where it entered
C26_Witness ==
    /\ hpc = "returned" /\ request.kind = "simulate"
    /\ Len(feed.rows) = 3 /\ request.entries = {3}
    /\ response.result.tradeCount = 1
    /\ response.result.avgProfit.num = 0

\* the rows a backtest run by a request takes as entry signals
EntrySignals ==
    LET column == IF request.kind = "search"
                  THEN golden_cross(feed.rows, SMA_SHORT, SMA_LONG)
                  ELSE golden_cross(feed.rows, Sma1Of(request), Sma2Of(request))
    IN  {t \in 1..Len(feed.rows) : column[t]}

C25_ExhaustionPropagates ==
    (fspc = "returned" /\ rpc = "raised") => escaped = raised

\* a date is within the bounds of the query that are given
InBounds(d) ==
    /\ query.start_date # NoDate => query.start_date <= d
    /\ query.end_date # NoDate => d <= query.end_date

\* C28: the list a query returns holds exactly the stored bars of its code
\* whose date is within the bounds that are given (all of them when none is),
\* in strictly ascending order of date: no bar of another code, no date twice.
C28_QueryBars ==
    qpc = "returned" =>
        /\ \A k \in 1..Len(answer) :
              /\ answer[k] \in stock_daily_data
              /\ answer[k].code = query.code
              /\ InBounds(answer[k].date)
        /\ \A r \in stock_daily_data :
              (r.code = query.code /\ InBounds(r.date)) =>
                  \E k \in 1..Len(answer) : answer[k] = r
        /\ \A j, k \in 1..Len(answer) : j < k => answer[j].date < answer[k].date

\* a query with both bounds has left out a bar of its code that is after
\* its end date and the bar of another code
C28_Witness ==
    /\ qpc = "returned"
    /\ query.start_date # NoDate /\ query.end_date # NoDate
    /\ Len(answer) = 1
    /\ \E r \in stock_daily_data : r.code = query.code /\ r.date > query.end_date
    /\ \E r \in stock_daily_data : r.code # query.code

\* the messages recorded in the histories
RECURSIVE Recorded(_)
Recorded(h) ==
    IF DOMAIN h = {} THEN 0
    ELSE LET d == CHOOSE x \in DOMAIN h : TRUE
         IN  Len(h[d]) + Recorded([x \in DOMAIN h \ {d} |-> h[x]])

\* C29: a chat or audio message is handed to the agent and recorded in the
\* history only in a session that has authenticated with a valid API key and
\* then registered a device id that is not empty; a chat or audio message
\* received in any other state is answered with an error and changes neither
\* the state machine nor the histories nor the inputs of the agent.
C29_ChatGating ==
    [][/\ (agent_inputs' # agent_inputs
           \/ Recorded(device_histories') # Recorded(device_histories)) =>
              /\ last_message' \in {"chat", "audio"}
              /\ handshake = <<"auth", "register">>
              /\ api_key \in ValidKeys
              /\ device_id \notin {None, NoDevice}
       /\ (/\ received' # received
           /\ last_message' \in {"chat", "audio"}
           /\ handshake # <<"auth", "register">>) =>
              /\ sent'.status = "error"
              /\ UNCHANGED <<state, api_key, device_id, device_histories, agent_inputs>>
      ]_vars

\* a chat message was handed to the agent and recorded with its reply, after
\* a chat message before the handshake was refused
C29_Witness ==
    /\ Len(agent_inputs) = 1
    /\ device_id = "d1"
    /\ Len(device_histories["d1"]) = 2
    /\ last_message = "chat"
    /\ received = 4

\* C30: when process has returned and the body of the workflow succeeds, the
\* workflow registered for the classified intent was invoked with the user
\* input, the device id and the conversation history, and the result has
\* success true, the name of that workflow and the classified intent.
C30_DispatchByIntent ==
    (apc = "done" /\ intent_result # None /\ workflow_ok) =>
        /\ Len(invoked) = 1
        /\ invoked[1].workflow = WORKFLOW_MAP[intent_result]
        /\ invoked[1].args[1] = agent_request.user_input
        /\ agent_result.success
        /\ agent_result.workflow = WORKFLOW_MAP[intent_result]
        /\ agent_result.intent = intent_result

\* C31: when process has ended, no exception has left it, and when the
\* classifier or the workflow raised, the result has success false, an error
\* and a reply.
C31_ProcessNeverRaises ==
    apc = "done" =>
        /\ agent_raised = None
        /\ Len(invoked) = 0 =>
              /\ ~agent_result.success
              /\ agent_result.error \in Exceptions
              /\ agent_result.reply # None

\* the call of the workflow raised after the classifier answered
C31_Witness ==
    /\ apc = "done"
    /\ intent_result # None
    /\ agent_result.error = "TypeError"
    /\ agent_result.reply = "sorry"

\* the keyword groups in the order of the claim, and their intents
KeywordGroups == <<search_keywords, reasoning_keywords, music_keywords, funcall_keywords>>
GroupIntents == <<"search", "reasoning", "music", "funcall">>
\* the input has a keyword of group g
HasKeyword(g) == \E keyword \in KeywordGroups[g] : Contains(keyword, user_input)

\* C32: the rule-based classifier answers the intent of the first group, in
\* the order search, reasoning, music, funcall, of which the input contains a
\* keyword, chat when it contains none, and a confidence in (0, 1].
C32_FirstMatchingGroup ==
    kpc = "done" =>
        /\ \A g \in DOMAIN KeywordGroups :
              (HasKeyword(g) /\ \A h \in 1..(g - 1) : ~HasKeyword(h)) =>
                  classified.intent = GroupIntents[g]
        /\ (\A g \in DOMAIN KeywordGroups : ~HasKeyword(g)) =>
              classified.intent = "chat"
        /\ 0 < classified.confidence.num
        /\ classified.confidence.num <= classified.confidence.den

\* an input with a keyword of the music group after one of the search group
\* was classified as search
C32_Witness ==
    /\ kpc = "done"
    /\ user_input = <<"zhao", "bo", "fang">>
    /\ HasKeyword(1) /\ HasKeyword(3)
    /\ classified.intent = "search"

\* C33: a bulk run starts a write of bars, and the stored bars change, only
\* after the fetch of its last instrument is over and its session is closed;
\* the writes follow the fetched instruments in order, one each, and a run
\* that returns has written every one of them once.
C33_FlushAfterBatch ==
    /\ [](bpc \in {"idle", "login", "fetch", "logout"} =>
             (cpc["sched"] = "idle" /\ fpos = 1))
    /\ [](bpc = "done" /\ codes # <<>> => fpos = Len(FlushOrder) + 1)
    /\ [][/\ (cpc["sched"] # "exec" /\ cpc'["sched"] = "exec") =>
                /\ bpc = "flush"
                /\ idx = Len(codes) + 1
                /\ logins = 1 /\ logouts = 1
                /\ fpos <= Len(FlushOrder)
                /\ job'["sched"].key = FlushOrder[fpos]
                /\ job'["sched"].rows = all_data[FlushOrder[fpos]]
          /\ stock_daily_data' # stock_daily_data =>
                (bpc = "saving" /\ idx = Len(codes) + 1 /\ logouts = 1)
          /\ fpos' # fpos => (bpc = "saving" /\ fpos' = fpos + 1)
         ]_vars

\* both instruments were fetched, the session is closed, the first is
\* written and the write of the second has started
C33_Witness ==
    /\ bpc = "saving" /\ cpc["sched"] = "exec"
    /\ Len(codes) = 2 /\ Len(FlushOrder) = 2 /\ fpos = 2
    /\ idx = 3 /\ logins = 1 /\ logouts = 1
    /\ job["sched"].key = codes[2]

\* C34: in the pass of every caller the bar fetch starts, and reads its list
\* of codes from the store, only after the fetch-and-save of both indices has
\* ended; the codes it reads are those the store holds then.
C34_MembershipBeforeBars ==
    [][(wpc' = "bars" /\ wpc # "bars") =>
          /\ caller \in Callers
          /\ wpc = "members"
          /\ \A t \in IndexTypes : task[t] \in Ended
          /\ codes_read' = {r.code : r \in index_stocks}
          /\ index_stocks' = index_stocks
      ]_vars

\* the bar fetch of the scheduled refresh has read the codes of the members
\* both saves left in the store
C34_Witness ==
    /\ wpc = "bars" /\ caller = "daily_refresh_task"
    /\ task = [t \in IndexTypes |-> "returned"]
    /\ codes_read = {"sh.600000", "sz.000001"}
    /\ members0 = {}

\* the stored rows of index t are its fetched list: its codes, one row each,
\* each row a stock of the list
FullyReplaced(t) ==
    /\ {r.code : r \in MembersOf(index_stocks, t)} = CodesOf(stocks_of[t])
    /\ Cardinality(MembersOf(index_stocks, t)) = Cardinality(CodesOf(stocks_of[t]))
    /\ \A r \in MembersOf(index_stocks, t) :
          \E k \in 1..Len(stocks_of[t]) : r = IndexRow(t, stocks_of[t][k])

\* C36: when the fetch of one index has failed on every attempt, the store
\* holds for that index the rows it held before, the fetch-and-save of the
\* other index has run to its end and, where it returned, has replaced the
\* rows of that index by its list, and fetch_all_index_stocks has returned,
\* not raised, with a count of 0 for the failed index.
C36_IndexIsolation ==
    /\ wpc = "raised" => \A t \in IndexTypes : task[t] = "idle"
    /\ wpc \in {"members", "bars"} =>
          \A t \in IndexTypes :
              task[t] = "fetch_raised" =>
                  /\ tries[t] = MAX_RETRIES
                  /\ MembersOf(index_stocks, t) = MembersOf(members0, t)
                  /\ counts[t] = 0
                  /\ \A u \in IndexTypes \ {t} :
                        /\ task[u] \in Ended
                        /\ task[u] = "returned" =>
                              (FullyReplaced(u) /\ counts[u] = Len(stocks_of[u]))

\* the fetch of hs300 failed on every attempt and its row is as before; the
\* two members fetched for zz500 have replaced its row
C36_Witness ==
    /\ wpc = "members"
    /\ task["hs300"] = "fetch_raised" /\ task["zz500"] = "returned"
    /\ counts["hs300"] = 0 /\ counts["zz500"] = 2
    /\ MembersOf(members0, "hs300") # {}
    /\ MembersOf(index_stocks, "hs300") = MembersOf(members0, "hs300")
    /\ Cardinality(MembersOf(index_stocks, "zz500")) = 2
    /\ Cardinality(MembersOf(members0, "zz500")) = 1

\* C35: when retry_on_failure has returned, func was called once more than it
\* had failed, the call that returned being the last; the value returned is
\* the value of that call; and func is not called again afterwards.
C35_StopsAtFirstSuccess ==
    /\ [](rpc = "returned" =>
             /\ calls = Len(errors) + 1
             /\ calls = attempt + 1
             /\ result \in Values
             /\ raised = None)
    /\ [][/\ rpc = "returned" => UNCHANGED <<calls, result, rpc, attempt>>
          /\ (rpc # "returned" /\ rpc' = "returned") =>
                (rpc = "call" /\ calls' = calls + 1 /\ errors' = errors
                 /\ result = None /\ result' \in Values)
         ]_vars

\* two attempts failed, the third returned: three calls, its value returned
C35_Witness ==
    /\ rpc = "returned" /\ max_retries = MAX_RETRIES
    /\ Len(errors) = 2 /\ calls = 3 /\ attempt = 2
    /\ result \in Values

\* C37: on every step of a replace of the members of an index, up to its
\* commit or its failure, the stored rows of every other index and all
\* stored bars are unchanged, and so are they in the view of its transaction.
C37_ReplaceFrame ==
    [][\A p \in Procs :
          (cpc[p] = "exec" /\ job[p].kind = "index") =>
              /\ stock_daily_data' = stock_daily_data
              /\ \A u \in IndexTypes \ {job[p].key} :
                    MembersOf(index_stocks', u) = MembersOf(index_stocks, u)
              /\ (cpc'[p] = "exec" /\ lock' = p) =>
                    /\ work'[p].bars = stock_daily_data
                    /\ \A u \in IndexTypes \ {job[p].key} :
                          MembersOf(work'[p].idx, u) = MembersOf(index_stocks, u)
      ]_vars

\* a replace of hs300 has committed beside stored members of zz500 and
\* stored bars
C37_Witness ==
    /\ cpc["sched"] = "ok" /\ job["sched"].kind = "index" /\ job["sched"].key = "hs300"
    /\ lastCommit = "sched" /\ lastReplace["hs300"].done
    /\ Cardinality(MembersOf(index_stocks, "hs300")) = 2
    /\ MembersOf(index_stocks, "zz500") # {}
    /\ stock_daily_data # {}

\* the place of a state on the path INIT, AUTHENTICATED, READY, CHATTING
Rank(st) ==
    IF st = INIT THEN 1 ELSE IF st = AUTHENTICATED THEN 2 ELSE IF st = READY THEN 3 ELSE 4
\* the call made by the step
LastCall == called'[Len(called')]

\* C38: a call of authenticate, register_device or start_chatting returns
\* True, and moves the state one place forward, exactly when the state is
\* INIT, AUTHENTICATED or READY respectively; otherwise it returns False and
\* leaves state, api_key and device_id as they were; no call but reset moves
\* the state backward.
C38_GuardedTransitions ==
    [][called' # called =>
          LET from == IF LastCall.op = "authenticate" THEN INIT
                      ELSE IF LastCall.op = "register_device" THEN AUTHENTICATED
                      ELSE READY
          IN  /\ LastCall.op # "reset" =>
                    /\ Rank(state') >= Rank(state)
                    /\ IF state = from
                       THEN returned' = "True" /\ Rank(state') = Rank(state) + 1
                       ELSE /\ returned' = "False"
                            /\ UNCHANGED <<state, api_key, device_id>>
              /\ LastCall.op = "reset" => state' = INIT
      ]_vars

\* register_device was called on a chatting machine: False, nothing changed
C38_Witness ==
    /\ Len(called) = MaxCalls
    /\ called[Len(called)].op = "register_device"
    /\ state = CHATTING /\ returned = "False"
    /\ device_id = "d1"

\* C39: api_key is set exactly when the state is not INIT, device_id is set
\* exactly when the state is READY or CHATTING, and is_ready implies
\* is_authenticated.
C39_CredentialInvariant ==
    /\ (api_key # None) <=> (state # INIT)
    /\ (device_id # None) <=> (state \in {READY, CHATTING})
    /\ is_ready => is_authenticated

\* a machine that was ready has been reset and authenticated again
C39_Witness ==
    /\ Len(called) = MaxCalls
    /\ called[3].op = "reset" /\ called[2].op = "register_device"
    /\ state = AUTHENTICATED /\ api_key = "key" /\ device_id = None

====
